---- MODULE Spec2Model ----
(***************************************************************************)
(* Model of the ArchBuddy workflow orchestration: the state reducers of    *)
(* core/types.py, the iteration controller of nodes/iteration.py, the node *)
(* handlers of nodes/ and the graph of graph/builder.py.                   *)
(*                                                                         *)
(* Python values are tagged, because merge_dicts asks isinstance(v, dict): *)
(*   S(v)  a scalar (str, int, bool, list taken as an opaque value)        *)
(*   D(m)  a dict, m a function from keys to tagged values                 *)
(* Feedback items are records (always dicts in the handlers); a feedback   *)
(* list is a sequence of such records.                                     *)
(***************************************************************************)
EXTENDS Naturals, Integers, Sequences, FiniteSets, TLC

VARIABLES
    provider,     \* provider the graph was built for: "AWS", "AZURE", "ALL"
    state,        \* the shared ArchitectureState (one value per channel)
    active,       \* nodes scheduled in the current superstep
    writes,       \* node -> partial update, for the nodes that have returned
    ended,        \* TRUE once END has been reached
    hist,         \* observation record of the run (never read by handlers)
    call          \* one application of a pure function: [fn, args, out]

vars == <<provider, state, active, writes, ended, hist, call>>

wfvars == <<provider, state, active, writes, ended, hist>>

(***************************************************************************)
(* Bounds                                                                  *)
(***************************************************************************)
MaxMinIter == 2      \* min_iterations ranges over 0..MaxMinIter
MaxMaxIter == 2      \* max_iterations ranges over 0..MaxMaxIter
MaxCount == 4        \* iteration_count inputs of the pure controller check
MaxAdverse == 1      \* adverse outcomes per run: a handler on its failure
                     \* path, or a validator report with has_errors = true
MaxFbOps == 3        \* reducer applications in the feedback-reducer check
MaxScalar == 2       \* scalars 1..MaxScalar in the dicts fed to merge_dicts
NumDomains == 2      \* how many of the four domains the graph is run with
MaxToolIter == 2     \* max_iterations of the tool loop ranges over 0..MaxToolIter
MaxRetry == 2        \* retry_attempts of the tool loop ranges over 0..MaxRetry
MaxCalls == 2        \* tool calls in one oracle response
MaxRequested == 3    \* tool calls the oracle requests in one run of the loop
MaxElapsed == 2      \* largest reading of the clock, in seconds since start_time
MaxSupRetries == 3   \* largest max_retries of architect_supervisor (its default is 3)
MaxHeapOps == 2      \* calls of the reducers on the same argument objects

(***************************************************************************)
(* Tagged Python values                                                    *)
(***************************************************************************)
S(v) == [kind |-> "scalar", val |-> v]

D(m) == [kind |-> "dict", items |-> m]

IsDict(v) == v.kind = "dict"

NoKeys == {}

EmptyDict == D([k \in NoKeys |-> S(0)])

Keys(d) == DOMAIN d.items

\* dict.get(key, default)
DictGet(d, key, default) == IF key \in Keys(d) THEN d.items[key] ELSE default

\* the dict {key: value}
Single(key, value) == D([k \in {key} |-> value])

(***************************************************************************)
(* core/types.py: merge_dicts                                              *)
(***************************************************************************)
merge_dicts_rightwins(left, right) ==
    D([k \in Keys(left) \cup Keys(right) |->
         IF k \in Keys(right) THEN right.items[k] ELSE left.items[k]])

RECURSIVE merge_dicts(_, _)
merge_dicts(left, right) ==
    D([k \in Keys(left) \cup Keys(right) |->
         IF k \in Keys(right)
         THEN IF k \in Keys(left) /\ IsDict(left.items[k]) /\ IsDict(right.items[k])
              THEN merge_dicts(left.items[k], right.items[k])
              ELSE right.items[k]
         ELSE left.items[k]])

\* last_value(left, right)
last_value(left, right) == right

(***************************************************************************)
(* core/types.py: validation_feedback_reducer                              *)
(***************************************************************************)
\* item.get(key, default) on a feedback item
ItemGet(item, key, default) == IF key \in DOMAIN item THEN item[key] ELSE default

\* hashlib.md5(text.encode()).hexdigest()[:8] for the texts of the model
md5_8(text) ==
    CASE text = "" -> "d41d8cd9"
      [] text = "ok_report" -> "45297308"
      [] text = "issue_report" -> "f6016786"
      [] text = "Validation error" -> "ad92169e"
      [] text = "No recommendations to validate" -> "fc5682c5"
      [] OTHER -> "ffffffff"

\* key = f"{domain}_{result_hash}"; the hash has a fixed width, so the
\* string is determined by, and determines, the pair
feedback_key(item) ==
    <<ItemGet(item, "domain", "unknown"), md5_8(ItemGet(item, "validation_result", ""))>>

\* feedback_dict[key] = item on an insertion-ordered dict, kept as a
\* sequence of [key, item] entries
DictPut(fd, key, item) ==
    IF \E i \in 1..Len(fd) : fd[i].key = key
    THEN [i \in 1..Len(fd) |-> IF fd[i].key = key THEN [key |-> key, item |-> item] ELSE fd[i]]
    ELSE Append(fd, [key |-> key, item |-> item])

\* the loop "for item in items: feedback_dict[key] = item", from item i on
\* (each intermediate dict is bound as a value before it is used)
RECURSIVE PutFrom(_, _, _)
PutFrom(fd, items, i) ==
    IF i > Len(items) THEN fd
    ELSE CHOOSE r \in {PutFrom(x, items, i + 1) :
                          x \in {DictPut(fd, feedback_key(items[i]), items[i])}} : TRUE

PutAll(fd, items) == PutFrom(fd, items, 1)

\* list(feedback_dict.values())
DictValues(fd) == [i \in 1..Len(fd) |-> fd[i].item]

validation_feedback_reducer_noreset(left, right) ==
    IF right = <<>> THEN left
    ELSE IF left = <<>> THEN right
    ELSE DictValues(PutAll(PutAll(<<>>, left), right))

\* every item is kept under a key of its own: the lists are concatenated
validation_feedback_reducer_append(left, right) ==
    IF right = <<>> /\ left # <<>> THEN <<>>
    ELSE IF right = <<>> THEN left
    ELSE IF left = <<>> THEN right
    ELSE left \o right

validation_feedback_reducer(left, right) ==
    IF right = <<>> /\ left # <<>> THEN <<>>
    ELSE IF right = <<>> THEN left
    ELSE IF left = <<>> THEN right
    ELSE DictValues(PutAll(PutAll(<<>>, left), right))

(***************************************************************************)
(* nodes/iteration.py: iteration_condition                                 *)
(***************************************************************************)
\* state.get(key, default)
StateGet(st, key, default) == IF key \in DOMAIN st THEN st[key] ELSE default

iteration_decision_maxfirst(iteration, min_iters, max_iters, has_errors) ==
    IF iteration >= max_iters THEN "finish"
    ELSE IF iteration < min_iters THEN "iterate"
    ELSE IF has_errors THEN "iterate"
    ELSE "finish"

iteration_decision_minoff(iteration, min_iters, max_iters, has_errors) ==
    IF iteration <= min_iters THEN "iterate"
    ELSE IF has_errors /\ iteration < max_iters THEN "iterate"
    ELSE "finish"

iteration_decision_inclusive(iteration, min_iters, max_iters, has_errors) ==
    IF iteration < min_iters THEN "iterate"
    ELSE IF has_errors /\ iteration <= max_iters THEN "iterate"
    ELSE "finish"

\* rules 1..4 applied to the four values read from the state
iteration_decision(iteration, min_iters, max_iters, has_errors) ==
    IF iteration < min_iters THEN "iterate"
    ELSE IF has_errors /\ iteration < max_iters THEN "iterate"
    ELSE IF iteration >= max_iters THEN "finish"
    ELSE "finish"

iteration_condition(st) ==
    iteration_decision(StateGet(st, "iteration_count", 0),
                       StateGet(st, "min_iterations", 1),
                       StateGet(st, "max_iterations", 3),
                       StateGet(st, "has_validation_errors", FALSE))

(***************************************************************************)
(* core/types.py: ArchitectureState, the channels and their reducers       *)
(***************************************************************************)
SchemaKeys ==
    {"messages", "user_problem", "iteration_count", "min_iterations",
     "max_iterations", "architecture_domain_tasks", "architecture_components",
     "proposed_architecture", "validation_feedback", "validation_summary",
     "audit_feedback", "factual_errors_exist", "design_flaws_exist",
     "final_architecture", "architecture_summary"}

\* the keys iteration_condition reads from the state
ControllerReads ==
    {"iteration_count", "min_iterations", "max_iterations", "has_validation_errors"}

\* the reducer annotated on each field
Reducer(key, old, new) ==
    CASE key \in {"messages", "audit_feedback"} -> old \o new
      [] key \in {"architecture_domain_tasks", "architecture_components",
                  "proposed_architecture"} -> merge_dicts(old, new)
      [] key = "validation_feedback" -> validation_feedback_reducer(old, new)
      [] key = "factual_errors_exist" -> new
      [] key = "design_flaws_exist" -> (old \/ new)
      [] OTHER -> last_value(old, new)

\* every named field overwritten, no reducer applied
apply_update_overwrite(st, upd) ==
    [k \in DOMAIN st |-> IF k \in DOMAIN upd THEN upd[k] ELSE st[k]]

\* one partial update merged into the state: a key of the update that is
\* no channel of the schema has no reducer and is not stored
apply_update(st, upd) ==
    [k \in DOMAIN st |-> IF k \in DOMAIN upd THEN Reducer(k, st[k], upd[k]) ELSE st[k]]

\* main.py run(): create_initial_state(user_problem, min_iterations, max_iterations)
create_initial_state(min_iterations, max_iterations) ==
    [messages |-> <<>>,
     user_problem |-> "problem",
     iteration_count |-> 0,
     min_iterations |-> min_iterations,
     max_iterations |-> max_iterations,
     architecture_domain_tasks |-> EmptyDict,
     architecture_components |-> EmptyDict,
     proposed_architecture |-> EmptyDict,
     validation_feedback |-> <<>>,
     validation_summary |-> "None",
     audit_feedback |-> <<>>,
     factual_errors_exist |-> FALSE,
     design_flaws_exist |-> FALSE,
     final_architecture |-> S("None"),
     architecture_summary |-> "None"]

(***************************************************************************)
(* Domains, providers, nodes                                               *)
(***************************************************************************)
AllDomains == <<"compute", "network", "storage", "database">>

Domains == {AllDomains[i] : i \in 1..(IF NumDomains < 4 THEN NumDomains ELSE 4)}

Providers == {"AWS", "AZURE", "ALL"}

\* include_aws / include_azure of create_graph_builder
include_aws(p) == p \in {"AWS", "ALL"}

include_azure(p) == p \in {"AZURE", "ALL"}

Clouds(p) == (IF include_aws(p) THEN {"aws"} ELSE {}) \cup
             (IF include_azure(p) THEN {"azure"} ELSE {})

Node(role, cloud, domain) == [role |-> role, cloud |-> cloud, domain |-> domain]

Shared(role) == Node(role, "-", "-")

architect_supervisor_node == Shared("architect_supervisor")

architect_synthesizer_node == Shared("architect_synthesizer")

validation_synthesizer_node == Shared("validation_synthesizer")

final_generator_node == Shared("final_architecture_generator")

Architects(p) == {Node("architect", c, d) : c \in Clouds(p), d \in Domains}

ValidatorSupervisors(p) == {Node("validator_supervisor", c, "-") : c \in Clouds(p)}

Validators(p) == {Node("validator", c, d) : c \in Clouds(p), d \in Domains}

\* f"aws_{domain}", the key the AWS validators look a component up by
aws_component_key(d) ==
    CASE d = "compute" -> "aws_compute"
      [] d = "network" -> "aws_network"
      [] d = "storage" -> "aws_storage"
      [] d = "database" -> "aws_database"

\* f"azure_{domain}"
azure_component_key(d) ==
    CASE d = "compute" -> "azure_compute"
      [] d = "network" -> "azure_network"
      [] d = "storage" -> "azure_storage"
      [] d = "database" -> "azure_database"

component_key(cloud, d) ==
    IF cloud = "aws" THEN aws_component_key(d) ELSE azure_component_key(d)

\* k.startswith("aws_") / k.startswith("azure_") on the keys of the model
KeysWithPrefix(keys, cloud) ==
    {k \in keys : \E d \in {AllDomains[i] : i \in 1..4} : k = component_key(cloud, d)}

(***************************************************************************)
(* Node handlers: state snapshot and oracle outcome -> partial update      *)
(***************************************************************************)
\* what a handler hands back when a fault leaves it instead of an update
Escaped == [escaped |-> TRUE]

\* the content of the message execute_tool_calls returns when the attempts
\* of an oracle invocation are exhausted (core/execution.py lines 55-57)
ToolLoopError == "Error"

\* nodes/supervisor.py line 41
next_iteration_stuck(st) == st.iteration_count

next_iteration(st) == st.iteration_count + 1

\* domain_tasks_update built from the decomposition; tasked = the domains
\* the oracle returned a task for
domain_tasks_update(tasked) ==
    D([k \in {"overall_goals", "constraints"} \cup tasked |->
         IF k \in tasked
         THEN D([f \in {"task_description", "requirements", "deliverables"} |-> S("task")])
         ELSE S("text")])

\* no outer try/except: the fault of the structured call leaves the handler
architect_supervisor_uncaught(st, outcome) ==
    IF outcome = "fail"
    THEN Escaped
    ELSE [architecture_domain_tasks |->
              domain_tasks_update(IF outcome = "ok" THEN Domains ELSE {}),
          iteration_count |-> next_iteration(st),
          validation_feedback |-> <<>>,
          architecture_components |-> EmptyDict,
          factual_errors_exist |-> FALSE]

\* the handler also returns its prompt messages
architect_supervisor_keeps_messages(st, outcome) ==
    IF outcome = "fail"
    THEN [iteration_count |-> next_iteration(st),
          factual_errors_exist |-> TRUE]
    ELSE [architecture_domain_tasks |->
              domain_tasks_update(IF outcome = "ok" THEN Domains ELSE {}),
          iteration_count |-> next_iteration(st),
          validation_feedback |-> <<>>,
          architecture_components |-> EmptyDict,
          factual_errors_exist |-> FALSE,
          messages |-> <<"system prompt", "user problem">>]

\* outcome "ok": a decomposition with a task per domain; "ok_empty": a
\* decomposition object without tasks; "fail": the structured call raised
architect_supervisor(st, outcome) ==
    IF outcome = "fail"
    THEN [iteration_count |-> next_iteration(st),
          factual_errors_exist |-> TRUE]
    ELSE [architecture_domain_tasks |->
              domain_tasks_update(IF outcome = "ok" THEN Domains ELSE {}),
          iteration_count |-> next_iteration(st),
          validation_feedback |-> <<>>,
          architecture_components |-> EmptyDict,
          factual_errors_exist |-> FALSE]

\* generic_domain_architect of nodes/azure/architects.py. The AWS architects
\* (nodes/aws/architects.py) are not part of the sources at hand; they are
\* taken to store their component under the key the AWS validators read.
\* outcome "ok": the tool loop returned the oracle's answer; "oracle_error":
\* it returned its error message (attempts exhausted), which is a response
\* with content like any other; "fail": an exception in the handler
generic_domain_architect(st, cloud, d, outcome) ==
    LET domain_task == DictGet(st.architecture_domain_tasks, d, EmptyDict)
        key == component_key(cloud, d)
        tag == IF cloud = "azure" THEN {"provider"} ELSE {}
        component ==
            IF ~IsDict(domain_task) \/ "task_description" \notin Keys(domain_task)
            THEN D([f \in {"recommendations", "task_info", "error"} |->
                      CASE f = "recommendations" -> S("No task assigned")
                        [] f = "task_info" -> EmptyDict
                        [] f = "error" -> S("No task")])
            ELSE IF outcome = "fail"
            THEN D([f \in {"recommendations", "domain", "error"} \cup tag |->
                      CASE f = "recommendations" -> S("Error in architect")
                        [] f = "domain" -> S(d)
                        [] f = "provider" -> S("azure")
                        [] f = "error" -> S("exception")])
            ELSE D([f \in {"recommendations", "domain", "task_info"} \cup tag |->
                      CASE f = "recommendations" ->
                               S(IF outcome = "oracle_error" THEN ToolLoopError
                                 ELSE "recommendation")
                        [] f = "domain" -> S(d)
                        [] f = "provider" -> S("azure")
                        [] f = "task_info" -> domain_task])
    IN  [architecture_components |-> Single(key, component)]

\* nodes/synthesizer.py architect_synthesizer
architect_synthesizer(st, outcome) ==
    LET all_components == st.architecture_components
    IN  IF Keys(all_components) = {}
        THEN [proposed_architecture |->
                  Single("architecture_summary", S("No components available for synthesis"))]
        ELSE IF outcome = "fail"
        THEN [proposed_architecture |->
                  D([f \in {"architecture_summary", "error"} |-> S("Synthesizer error")])]
        ELSE [proposed_architecture |->
                  D([f \in {"architecture_summary", "source_components", "synthesis_iteration"} |->
                       CASE f = "architecture_summary" -> S("summary")
                         [] f = "source_components" -> all_components
                         [] f = "synthesis_iteration" -> S(st.iteration_count)])]

\* validator_supervisor (aws) and azure_validator_supervisor
validator_supervisor(st, cloud) ==
    LET keys == KeysWithPrefix(Keys(st.architecture_components), cloud)
        validation_tasks_update ==
            D([k \in keys |->
                 D([f \in {"components_to_validate", "validation_focus"} |-> S("text")])])
    IN  IF keys = {}
        THEN [architecture_domain_tasks |-> st.architecture_domain_tasks]
        ELSE [architecture_domain_tasks |->
                  merge_dicts(st.architecture_domain_tasks,
                              Single("validation_tasks", validation_tasks_update))]

\* the text a dict value holds under key, "" when absent
TextOf(d, key) ==
    IF IsDict(d) /\ key \in Keys(d) /\ ~IsDict(d.items[key]) THEN d.items[key].val ELSE ""

\* validation_result: the content of the response of the tool loop
validation_result(outcome) ==
    CASE outcome = "pass" -> "ok_report"
      [] outcome = "issues" -> "issue_report"
      [] OTHER -> ToolLoopError

\* detect_errors_llm: the verdict of the oracle on the report
detect_errors_llm(outcome) == outcome \in {"issues", "oracle_error"}

\* no try/except around the tool loop, and the tool loop raising when the
\* attempts are exhausted
generic_domain_validator_uncaught(st, cloud, d, outcome) ==
    LET key == component_key(cloud, d)
        domain_recommendations ==
            TextOf(DictGet(st.architecture_components, key, EmptyDict), "recommendations")
        reported == IF cloud = "aws" THEN d ELSE key
    IN  IF domain_recommendations = ""
        THEN [validation_feedback |->
                  <<[domain |-> key, status |-> "skipped",
                     result |-> "No recommendations to validate", has_errors |-> FALSE]>>]
        ELSE IF outcome \in {"fail", "oracle_error"}
        THEN Escaped
        ELSE [validation_feedback |->
                  <<[domain |-> reported,
                     result |-> validation_result(outcome),
                     has_errors |-> detect_errors_llm(outcome)]>>,
              has_validation_errors |-> detect_errors_llm(outcome)]

\* generic_domain_validator of nodes/aws/validators.py and
\* nodes/azure/validators.py; outcome "pass" / "issues": the report and the
\* verdict of detect_errors_llm; "oracle_error": the tool loop returned its
\* error message (attempts exhausted), on which the verdict is yes like on
\* the report of "issues"; "fail": an exception in the handler
generic_domain_validator(st, cloud, d, outcome) ==
    LET key == component_key(cloud, d)
        domain_recommendations ==
            TextOf(DictGet(st.architecture_components, key, EmptyDict), "recommendations")
        reported == IF cloud = "aws" THEN d ELSE key
    IN  IF domain_recommendations = ""
        THEN [validation_feedback |->
                  <<[domain |-> key, status |-> "skipped",
                     result |-> "No recommendations to validate", has_errors |-> FALSE]>>]
        ELSE IF outcome = "fail"
        THEN [validation_feedback |->
                  <<[domain |-> reported, result |-> "Validation error", has_errors |-> TRUE]>>,
              has_validation_errors |-> TRUE]
        ELSE [validation_feedback |->
                  <<[domain |-> reported,
                     result |-> validation_result(outcome),
                     has_errors |-> detect_errors_llm(outcome)]>>,
              has_validation_errors |-> detect_errors_llm(outcome)]

\* nodes/synthesizer.py validation_synthesizer
validation_synthesizer(st, outcome) ==
    LET all_feedback == st.validation_feedback
        error_count ==
            Cardinality({i \in 1..Len(all_feedback) : ItemGet(all_feedback[i], "has_errors", FALSE)})
    IN  IF all_feedback = <<>>
        THEN [validation_summary |-> "No validation performed",
              has_validation_errors |-> FALSE]
        ELSE IF outcome = "fail"
        THEN [validation_summary |-> "Error",
              has_validation_errors |-> TRUE]
        ELSE [validation_summary |-> "summary",
              has_validation_errors |-> (error_count > 0)]

\* the except branch returns nothing for final_architecture
final_architecture_generator_silent(st, outcome) ==
    IF outcome = "fail"
    THEN [architecture_summary |-> "Error"]
    ELSE [final_architecture |->
              D([f \in {"document", "components", "validation_summary", "iterations"} |->
                   CASE f = "document" -> S("final document")
                     [] f = "components" -> st.architecture_components
                     [] f = "validation_summary" -> S(st.validation_summary)
                     [] f = "iterations" -> S(st.iteration_count)]),
          architecture_summary |-> "final document"]

\* nodes/iteration.py final_architecture_generator
final_architecture_generator(st, outcome) ==
    IF outcome = "fail"
    THEN [final_architecture |->
              D([f \in {"document", "error"} |-> S("Error")])]
    ELSE [final_architecture |->
              D([f \in {"document", "components", "validation_summary", "iterations"} |->
                   CASE f = "document" -> S("final document")
                     [] f = "components" -> st.architecture_components
                     [] f = "validation_summary" -> S(st.validation_summary)
                     [] f = "iterations" -> S(st.iteration_count)]),
          architecture_summary |-> "final document"]

(***************************************************************************)
(* graph/builder.py: the edges, and the superstep execution of the graph   *)
(***************************************************************************)
\* the architects wired straight to the validator supervisors
Successors_skips_synthesizer(n, p) ==
    CASE n.role = "architect_supervisor" -> Architects(p)
      [] n.role = "architect" -> ValidatorSupervisors(p)
      [] n.role = "architect_synthesizer" -> ValidatorSupervisors(p)
      [] n.role = "validator_supervisor" -> {v \in Validators(p) : v.cloud = n.cloud}
      [] n.role = "validator" -> {validation_synthesizer_node}
      [] OTHER -> {}

\* the static successors the add_edge calls give a node
Successors(n, p) ==
    CASE n.role = "architect_supervisor" -> Architects(p)
      [] n.role = "architect" -> {architect_synthesizer_node}
      [] n.role = "architect_synthesizer" -> ValidatorSupervisors(p)
      [] n.role = "validator_supervisor" -> {v \in Validators(p) : v.cloud = n.cloud}
      [] n.role = "validator" -> {validation_synthesizer_node}
      [] OTHER -> {}

\* the nodes add_node registers for a provider
RegisteredNodes(p) ==
    {architect_supervisor_node, architect_synthesizer_node,
     validation_synthesizer_node, final_generator_node}
    \cup Architects(p) \cup ValidatorSupervisors(p) \cup Validators(p)

\* 'finish' mapped to a name no add_node call registered
ConditionalTarget_unregistered(label) ==
    IF label = "iterate" THEN architect_supervisor_node ELSE Shared("final_generator")

\* add_conditional_edges("validation_synthesizer", iteration_condition, {...})
ConditionalTarget(label) ==
    IF label = "iterate" THEN architect_supervisor_node ELSE final_generator_node

\* the entry and exit points of the graph
START == Shared("__start__")

END == Shared("__end__")

\* the path map of add_conditional_edges: source, label, target
ConditionalEdges ==
    {<<validation_synthesizer_node, label, ConditionalTarget(label)>> :
        label \in {"iterate", "finish"}}

\* every edge of the builder for a provider, as <<source, target>>
Edges(p) ==
    {<<START, architect_supervisor_node>>}
    \cup UNION {{<<n, m>> : m \in Successors(n, p)} : n \in RegisteredNodes(p)}
    \cup {<<e[1], e[3]>> : e \in ConditionalEdges}
    \cup {<<final_generator_node, END>>}

\* position of a node in the order the updates of one superstep are merged
\* in (by node name: aws before azure, then the domain name)
MergeRank(n) ==
    (IF n.cloud = "azure" THEN 10 ELSE 0) +
    (CASE n.domain = "compute" -> 1
       [] n.domain = "database" -> 2
       [] n.domain = "network" -> 3
       [] n.domain = "storage" -> 4
       [] OTHER -> 0)

\* the nodes of a superstep in merge order
RECURSIVE MergeOrder(_)
MergeOrder(nodes) ==
    IF nodes = {} THEN <<>>
    ELSE LET n == CHOOSE m \in nodes : \A o \in nodes : MergeRank(m) <= MergeRank(o)
         IN  <<n>> \o MergeOrder(nodes \ {n})

\* the updates w[order[i]], w[order[i+1]], ... merged one after the other
\* into st (each intermediate state is bound as a value before it is used)
RECURSIVE MergeFrom(_, _, _, _)
MergeFrom(st, w, order, i) ==
    IF i > Len(order) THEN st
    ELSE CHOOSE r \in {MergeFrom(x, w, order, i + 1) :
                          x \in {apply_update(st, u) : u \in {w[order[i]]}}} : TRUE

\* only the update of the last node of the order is applied
MergeAll_lastonly(st, w, nodes) ==
    CHOOSE r \in {apply_update(st, w[order[Len(order)]]) : order \in {MergeOrder(nodes)}} : TRUE

MergeAll(st, w, nodes) ==
    CHOOSE r \in {MergeFrom(st, w, order, 1) : order \in {MergeOrder(nodes)}} : TRUE

NoWrites == [n \in {} |-> 0]

HistInit ==
    [sup_runs |-> 0,          \* executions of architect_supervisor
     adverse |-> 0,           \* adverse outcomes so far
     sup_outcome |-> "none",  \* outcome of the pass's architect_supervisor
     decision |-> "none",     \* label of the pass's conditional edge
     pass_errors |-> FALSE,   \* a validator of the pass reported has_errors
     fb_before |-> FALSE,     \* feedback list non-empty when the supervisor ran
     flag_before |-> FALSE,   \* factual_errors_exist when the supervisor ran
     loop_at |-> -1,          \* iteration_count at the last loop-back, -1: none
     final_runs |-> 0,        \* executions of final_architecture_generator
     asyn_runs |-> 0,         \* executions of architect_synthesizer
     vsyn_runs |-> 0,         \* executions of validation_synthesizer
     cond_evals |-> 0,        \* evaluations of the conditional edge
     aborted |-> FALSE]       \* a fault left a handler and ended the run

\* the run counter of hist stops counting here; no run gets this far
RunCap == MaxMinIter + MaxMaxIter + 2

NoCall == [fn |-> "none"]

Init ==
    /\ provider \in Providers
    /\ \E mn \in 0..MaxMinIter, mx \in 0..MaxMaxIter :
           state = create_initial_state(mn, mx)
    /\ active = {architect_supervisor_node}
    /\ writes = NoWrites
    /\ ended = FALSE
    /\ hist = HistInit
    /\ call = NoCall

Ready(n) == ~ended /\ n \in active /\ n \notin DOMAIN writes

\* a node of a superstep reads the state as merged at the previous barrier
\* together with the updates its siblings have returned so far
snapshot_for_dirty(st, w, n) ==
    CHOOSE r \in {MergeAll(st, w, nodes) : nodes \in {DOMAIN w}} : TRUE

\* the state a node of a superstep is called with: the state as merged at
\* the previous barrier, whatever the siblings have returned since
snapshot_for(st, w, n) == st

CanFault == hist.adverse < MaxAdverse

Returned(n, upd) == writes' = [m \in DOMAIN writes \cup {n} |-> IF m = n THEN upd ELSE writes[m]]

Fault(outcome) ==
    IF outcome \in {"fail", "ok_empty", "issues", "oracle_error"} THEN 1 ELSE 0

\* --- the observers of a run: main.py stream() and the checkpointer ---------
\* one event of graph.stream(..., stream_mode="updates"): the node that
\* completed and the update it returned
StreamEvent(n, upd) == [node |-> n, update |-> upd]

\* the event is put in front of the ones yielded before
emit_front(events, n, upd) == <<StreamEvent(n, upd)>> \o events

\* 'yield event' for the node that completed
emit(events, n, upd) == Append(events, StreamEvent(n, upd))

\* the new state takes the place of the latest version
put_checkpoint_overwrite(saved, st) ==
    IF saved = <<>> THEN <<st>> ELSE [saved EXCEPT ![Len(saved)] = st]

\* MemorySaver of the compiled graph: the versions of the run's thread, the
\* newest last
put_checkpoint(saved, st) == Append(saved, st)

\* the record of a run under observation: the events yielded so far and the
\* versions the checkpointer holds for the thread
stream_entry(st) ==
    [fn |-> "stream", thread_id |-> "arch-stream-0", events |-> <<>>,
     saved |-> put_checkpoint(<<>>, st)]

\* a node returned: the stream yields its event
node_completed(c, n, upd) ==
    IF c.fn = "stream" THEN [c EXCEPT !.events = emit(@, n, upd)] ELSE c

\* a superstep was merged: the checkpointer stores the merged state
superstep_committed(c, merged) ==
    IF c.fn = "stream" THEN [c EXCEPT !.saved = put_checkpoint(@, merged)] ELSE c

RunSupervisor ==
    /\ Ready(architect_supervisor_node)
    /\ \E outcome \in {"ok"} \cup (IF CanFault THEN {"ok_empty", "fail"} ELSE {}) :
          /\ Returned(architect_supervisor_node,
                      architect_supervisor(snapshot_for(state, writes, architect_supervisor_node),
                                           outcome))
          /\ hist' = [hist EXCEPT !.sup_runs = IF @ < RunCap THEN @ + 1 ELSE @,
                                  !.adverse = @ + Fault(outcome),
                                  !.sup_outcome = outcome,
                                  !.decision = "none",
                                  !.pass_errors = FALSE,
                                  !.fb_before = (state.validation_feedback # <<>>),
                                  !.flag_before = state.factual_errors_exist]
    /\ call' = node_completed(call, architect_supervisor_node, writes'[architect_supervisor_node])
    /\ UNCHANGED <<provider, state, active, ended>>

RunArchitect ==
    \E n \in Architects(provider) :
       /\ Ready(n)
       /\ \E outcome \in {"ok"} \cup (IF CanFault THEN {"fail", "oracle_error"} ELSE {}) :
             /\ Returned(n, generic_domain_architect(snapshot_for(state, writes, n),
                                                     n.cloud, n.domain, outcome))
             /\ hist' = [hist EXCEPT !.adverse = @ + Fault(outcome)]
       /\ call' = node_completed(call, n, writes'[n])
       /\ UNCHANGED <<provider, state, active, ended>>

RunArchitectSynthesizer ==
    /\ Ready(architect_synthesizer_node)
    /\ \E outcome \in {"ok"} \cup (IF CanFault THEN {"fail"} ELSE {}) :
          /\ Returned(architect_synthesizer_node,
                      architect_synthesizer(snapshot_for(state, writes, architect_synthesizer_node),
                                            outcome))
          /\ hist' = [hist EXCEPT !.adverse = @ + Fault(outcome),
                                  !.asyn_runs = IF @ < RunCap THEN @ + 1 ELSE @]
    /\ call' = node_completed(call, architect_synthesizer_node, writes'[architect_synthesizer_node])
    /\ UNCHANGED <<provider, state, active, ended>>

RunValidatorSupervisor ==
    \E n \in ValidatorSupervisors(provider) :
       /\ Ready(n)
       /\ Returned(n, validator_supervisor(snapshot_for(state, writes, n), n.cloud))
       /\ call' = node_completed(call, n, writes'[n])
       /\ UNCHANGED <<provider, state, active, ended, hist>>

RunValidator ==
    \E n \in Validators(provider) :
       /\ Ready(n)
       /\ \E outcome \in {"pass"} \cup
                          (IF CanFault
                           THEN {"issues", "fail", "oracle_error"}
                           ELSE {}) :
             LET upd == generic_domain_validator(snapshot_for(state, writes, n),
                                                 n.cloud, n.domain, outcome)
             IN  /\ Returned(n, upd)
                 /\ hist' = [hist EXCEPT
                       !.adverse = @ + Fault(outcome),
                       !.pass_errors = @ \/ (upd # Escaped /\ upd.validation_feedback[1].has_errors)]
       /\ call' = node_completed(call, n, writes'[n])
       /\ UNCHANGED <<provider, state, active, ended>>

RunValidationSynthesizer ==
    /\ Ready(validation_synthesizer_node)
    /\ \E outcome \in {"ok"} \cup (IF CanFault THEN {"fail"} ELSE {}) :
          /\ Returned(validation_synthesizer_node,
                      validation_synthesizer(snapshot_for(state, writes, validation_synthesizer_node),
                                             outcome))
          /\ hist' = [hist EXCEPT !.adverse = @ + Fault(outcome),
                                  !.vsyn_runs = IF @ < RunCap THEN @ + 1 ELSE @]
    /\ call' = node_completed(call, validation_synthesizer_node, writes'[validation_synthesizer_node])
    /\ UNCHANGED <<provider, state, active, ended>>

RunFinalGenerator ==
    /\ Ready(final_generator_node)
    /\ \E outcome \in {"ok"} \cup (IF CanFault THEN {"fail"} ELSE {}) :
          /\ Returned(final_generator_node,
                      final_architecture_generator(snapshot_for(state, writes, final_generator_node),
                                                   outcome))
          /\ hist' = [hist EXCEPT !.adverse = @ + Fault(outcome),
                                  !.final_runs = @ + 1]
    /\ call' = node_completed(call, final_generator_node, writes'[final_generator_node])
    /\ UNCHANGED <<provider, state, active, ended>>

\* the barrier at the end of a superstep: every scheduled node has returned,
\* the updates are merged, the edges of the nodes that ran give the next set.
\* A fault that left a handler is raised out of the graph's invoke instead:
\* nothing is merged and the run is over.
Commit ==
    /\ ~ended
    /\ active # {}
    /\ DOMAIN writes = active
    /\ IF \E n \in active : writes[n] = Escaped
       THEN /\ state' = state
            /\ active' = {}
            /\ ended' = TRUE
            /\ hist' = [hist EXCEPT !.aborted = TRUE]
       ELSE \E merged \in {MergeAll(state, writes, active)} :
          \E label \in {iteration_condition(merged)} :
             /\ state' = merged
             /\ IF validation_synthesizer_node \in active
                THEN /\ active' = {ConditionalTarget(label)}
                     /\ ended' = FALSE
                     /\ hist' = [hist EXCEPT
                           !.decision = label,
                           !.cond_evals = IF @ < RunCap THEN @ + 1 ELSE @,
                           !.loop_at = IF label = "iterate" THEN merged.iteration_count ELSE @]
                ELSE IF final_generator_node \in active
                THEN /\ active' = {}
                     /\ ended' = TRUE
                     /\ hist' = hist
                ELSE /\ active' = UNION {Successors(n, provider) : n \in active}
                     /\ ended' = FALSE
                     /\ hist' = hist
    /\ writes' = NoWrites
    /\ call' = IF state' = state /\ ended' /\ hist'.aborted THEN call
               ELSE superstep_committed(call, state')
    /\ UNCHANGED provider

Next ==
    \/ RunSupervisor
    \/ RunArchitect
    \/ RunArchitectSynthesizer
    \/ RunValidatorSupervisor
    \/ RunValidator
    \/ RunValidationSynthesizer
    \/ RunFinalGenerator
    \/ Commit

Spec == Init /\ [][Next]_vars

\* a run whose events and checkpoints are recorded; under provider All, whose
\* branches complete in many orders, the runs of a single pass
InitStream ==
    /\ provider \in Providers
    /\ \E mn \in 0..MaxMinIter, mx \in 0..MaxMaxIter :
           /\ provider = "ALL" => mn = 0 /\ mx = 0
           /\ state = create_initial_state(mn, mx)
    /\ active = {architect_supervisor_node}
    /\ writes = NoWrites
    /\ ended = FALSE
    /\ hist = HistInit
    /\ call = stream_entry(state)

SpecStream == InitStream /\ [][Next]_vars

\* every handler returns and the scheduler keeps stepping
FairSpec == Spec /\ WF_vars(Next)

TypeOK == DOMAIN state = SchemaKeys

\* the outcomes the collaborators of a node's handler can have
NodeOutcomes(n) ==
    CASE n.role = "architect_supervisor" -> {"ok", "ok_empty", "fail"}
      [] n.role = "architect" -> {"ok", "fail", "oracle_error"}
      [] n.role = "validator_supervisor" -> {"ok"}
      [] n.role = "validator" -> {"pass", "issues", "fail", "oracle_error"}
      [] OTHER -> {"ok", "fail"}

\* the handler add_node binds to a node, applied to a state
NodeUpdate(n, st, outcome) ==
    CASE n.role = "architect_supervisor" -> architect_supervisor(st, outcome)
      [] n.role = "architect" -> generic_domain_architect(st, n.cloud, n.domain, outcome)
      [] n.role = "architect_synthesizer" -> architect_synthesizer(st, outcome)
      [] n.role = "validator_supervisor" -> validator_supervisor(st, n.cloud)
      [] n.role = "validator" -> generic_domain_validator(st, n.cloud, n.domain, outcome)
      [] n.role = "validation_synthesizer" -> validation_synthesizer(st, outcome)
      [] n.role = "final_architecture_generator" -> final_architecture_generator(st, outcome)

(***************************************************************************)
(* Applications of the pure functions to enumerated inputs.  The workflow  *)
(* variables are parked; call holds the arguments and the result.          *)
(***************************************************************************)
Parked ==
    /\ provider = "AWS"
    /\ state = create_initial_state(0, 0)
    /\ active = {}
    /\ writes = NoWrites
    /\ ended = TRUE
    /\ hist = HistInit

\* --- iteration_condition -------------------------------------------------
ControllerStates ==
    {[iteration_count |-> i, min_iterations |-> mn, max_iterations |-> mx,
      has_validation_errors |-> e] :
        i \in 0..MaxCount, mn \in 0..MaxCount, mx \in 0..MaxCount, e \in BOOLEAN}
    \cup
    {[iteration_count |-> i, min_iterations |-> mn, max_iterations |-> mx] :
        i \in 0..MaxCount, mn \in 0..MaxCount, mx \in 0..MaxCount}

InitController ==
    /\ Parked
    /\ \E st \in ControllerStates :
          call = [fn |-> "iteration_condition", st |-> st, out |-> "none"]

EvalController ==
    /\ call.fn = "iteration_condition"
    /\ call.out = "none"
    /\ call' = [call EXCEPT !.out = iteration_condition(call.st)]
    /\ UNCHANGED wfvars

NextController == EvalController

SpecController == InitController /\ [][NextController]_vars

\* --- merge_dicts ---------------------------------------------------------
Scalars == {S(i) : i \in 1..MaxScalar}

DictsOver(keys, values) ==
    {D(f) : f \in UNION {[ks -> values] : ks \in SUBSET keys}}

InnerDicts == DictsOver({"r"}, Scalars)

MidDicts == DictsOver({"p", "q"}, Scalars \cup InnerDicts)

TopDicts ==
    {D([k \in Keys(a) \cup Keys(b) |-> IF k \in Keys(a) THEN a.items[k] ELSE b.items[k]]) :
        a \in DictsOver({"x"}, Scalars \cup MidDicts), b \in DictsOver({"y"}, Scalars)}

InitMerge ==
    /\ Parked
    /\ \E l \in TopDicts, r \in TopDicts :
          call = [fn |-> "merge_dicts", left |-> l, right |-> r,
                  done |-> FALSE, out |-> EmptyDict]

EvalMerge ==
    /\ call.fn = "merge_dicts"
    /\ ~call.done
    /\ call' = [call EXCEPT !.done = TRUE, !.out = merge_dicts(call.left, call.right)]
    /\ UNCHANGED wfvars

NextMerge == EvalMerge

SpecMerge == InitMerge /\ [][NextMerge]_vars

\* --- validation_feedback_reducer -----------------------------------------
\* a snapshot in which every architect of the run has left a component, and
\* the updates the validators return on it and on the initial snapshot
WithComponents ==
    [create_initial_state(0, 0) EXCEPT !.architecture_components =
        D([k \in {component_key(c, d) : c \in {"aws", "azure"}, d \in Domains} |->
             Single("recommendations", S("recommendation"))])]

ValidatorUpdates ==
    {generic_domain_validator(st, c, d, o).validation_feedback :
        st \in {WithComponents, create_initial_state(0, 0)},
        c \in {"aws", "azure"}, d \in Domains, o \in {"pass", "issues", "fail"}}

InitFeedback ==
    /\ Parked
    /\ call = [fn |-> "validation_feedback_reducer", left |-> <<>>, right |-> <<>>,
               out |-> <<>>, ops |-> 0]

\* one more update merged into the list: a validator's single item, or the
\* empty list the supervisor writes
ReduceFeedback ==
    /\ call.fn = "validation_feedback_reducer"
    /\ call.ops < MaxFbOps
    /\ \E right \in ValidatorUpdates \cup {<<>>} :
          call' = [call EXCEPT !.left = call.out,
                               !.right = right,
                               !.out = validation_feedback_reducer(call.out, right),
                               !.ops = @ + 1]
    /\ UNCHANGED wfvars

NextFeedback == ReduceFeedback

SpecFeedback == InitFeedback /\ [][NextFeedback]_vars

\* --- two updates merged in either order ----------------------------------
SubDicts == DictsOver({"p", "q"}, Scalars)

OrderDicts ==
    {D([k \in Keys(a) \cup Keys(b) |-> IF k \in Keys(a) THEN a.items[k] ELSE b.items[k]]) :
        a \in DictsOver({"x"}, Scalars \cup SubDicts), b \in DictsOver({"y"}, Scalars)}

\* the values a field's state and two updates of it are drawn from
OrderInputs(field) ==
    CASE field = "architecture_components" ->
             {<<s, a, b>> : s \in OrderDicts, a \in OrderDicts, b \in OrderDicts}
      [] field = "design_flaws_exist" ->
             {<<s, a, b>> : s \in BOOLEAN, a \in BOOLEAN, b \in BOOLEAN}
      [] field = "validation_feedback" ->
             {<<s, a, b>> : s \in ValidatorUpdates \cup {<<>>},
                            a \in ValidatorUpdates \cup {<<>>},
                            b \in ValidatorUpdates \cup {<<>>}}

InitOrder ==
    /\ Parked
    /\ \E field \in {"architecture_components", "design_flaws_exist", "validation_feedback"} :
          \E in \in OrderInputs(field) :
             call = [fn |-> "reducer_order", field |-> field,
                     s |-> in[1], a |-> in[2], b |-> in[3],
                     done |-> FALSE, ab |-> in[1], ba |-> in[1]]

\* the field's reducer folds a then b, and b then a, into s
EvalOrder ==
    /\ call.fn = "reducer_order"
    /\ ~call.done
    /\ call' = [call EXCEPT
          !.done = TRUE,
          !.ab = Reducer(call.field, Reducer(call.field, call.s, call.a), call.b),
          !.ba = Reducer(call.field, Reducer(call.field, call.s, call.b), call.a)]
    /\ UNCHANGED wfvars

NextOrder == EvalOrder

SpecOrder == InitOrder /\ [][NextOrder]_vars

\* --- the reducers on Python objects ---------------------------------------
\* The heap is a sequence of objects, an object's address its position. A
\* dict object maps keys to cells, a list object holds a sequence of cells;
\* a cell is a scalar or a reference to an object.
Ref(a) == [kind |-> "ref", addr |-> a]

DictObj(items) == [kind |-> "dict", items |-> items]

ListObj(elems) == [kind |-> "list", elems |-> elems]

NoItems == [k \in NoKeys |-> S(0)]

\* d[key] = cell on the items of a dict object
ItemsPut(items, key, cell) ==
    [k \in DOMAIN items \cup {key} |-> IF k = key THEN cell ELSE items[k]]

\* isinstance(x, dict) on a cell
is_dict_at(h, cell) == cell.kind = "ref" /\ h[cell.addr].kind = "dict"

\* the construction of a tagged value as objects: the heap that holds it
\* and the cell that refers to it
RECURSIVE store(_, _), store_items(_, _, _, _)
store(h, v) ==
    IF ~IsDict(v) THEN [heap |-> h, cell |-> v]
    ELSE CHOOSE out \in {[heap |-> Append(r.heap, DictObj(r.items)),
                          cell |-> Ref(Len(r.heap) + 1)] :
                            r \in {store_items(h, v, Keys(v), NoItems)}} : TRUE

store_items(h, v, keys, acc) ==
    IF keys = {} THEN [heap |-> h, items |-> acc]
    ELSE LET k == CHOOSE x \in keys : TRUE
         IN  CHOOSE out \in {store_items(r.heap, v, keys \ {k}, ItemsPut(acc, k, r.cell)) :
                                r \in {store(h, v.items[k])}} : TRUE

\* a feedback item as a tagged dict, and back
ItemAsDict(item) == D([k \in DOMAIN item |-> S(item[k])])

DictAsItem(d) == [k \in Keys(d) |-> d.items[k].val]

\* the construction of a list of feedback items, from item i on
RECURSIVE store_list(_, _, _, _)
store_list(h, items, i, acc) ==
    IF i > Len(items)
    THEN [heap |-> Append(h, ListObj(acc)), cell |-> Ref(Len(h) + 1)]
    ELSE CHOOSE out \in {store_list(r.heap, items, i + 1, Append(acc, r.cell)) :
                            r \in {store(h, ItemAsDict(items[i]))}} : TRUE

\* the value a cell stands for: a tagged value, or the sequence of the
\* items of a list
RECURSIVE load(_, _)
load(h, cell) ==
    IF cell.kind # "ref" THEN cell
    ELSE IF h[cell.addr].kind = "dict"
    THEN D([k \in DOMAIN h[cell.addr].items |-> load(h, h[cell.addr].items[k])])
    ELSE [i \in 1..Len(h[cell.addr].elems) |-> DictAsItem(load(h, h[cell.addr].elems[i]))]

RECURSIVE merge_dicts_at(_, _, _), merge_items(_, _, _, _)
\* lines 41-45: the loop over right.items(), keys being the keys to come
merge_items(h, result, right, keys) ==
    IF keys = {} THEN [heap |-> h, cell |-> Ref(result)]
    ELSE LET key == CHOOSE x \in keys : TRUE
             value == h[right].items[key]
         IN  IF /\ key \in DOMAIN h[result].items
                /\ is_dict_at(h, h[result].items[key])
                /\ is_dict_at(h, value)
             THEN CHOOSE out \in
                     {merge_items([r.heap EXCEPT ![result] =
                                      DictObj(ItemsPut(@.items, key, r.cell))],
                                  result, right, keys \ {key}) :
                         r \in {merge_dicts_at(h, h[result].items[key].addr, value.addr)}} : TRUE
             ELSE merge_items([h EXCEPT ![result] = DictObj(ItemsPut(@.items, key, value))],
                              result, right, keys \ {key})

\* 'result = left' in place of the copy
merge_dicts_at_inplace(h, left, right) ==
    merge_items(h, left, right, DOMAIN h[right].items)

\* merge_dicts on the objects at left and right: 'result = left.copy()' is a
\* new object with the cells of left, then the loop
merge_dicts_at(h, left, right) ==
    merge_items(Append(h, h[left]), Len(h) + 1, right, DOMAIN h[right].items)

\* last_value on cells
last_value_at(h, left, right) == [heap |-> h, cell |-> right]

\* item.get(key, default) on the item object at a
item_get_at(h, a, key, default) ==
    IF key \in DOMAIN h[a].items THEN h[a].items[key].val ELSE default

feedback_key_at(h, a) ==
    <<item_get_at(h, a, "domain", "unknown"),
      md5_8(item_get_at(h, a, "validation_result", ""))>>

\* lines 86-101: feedback_dict[key] = item for the cells of a list, from i on
RECURSIVE put_refs(_, _, _, _)
put_refs(h, fd, elems, i) ==
    IF i > Len(elems) THEN fd
    ELSE CHOOSE out \in {put_refs(h, x, elems, i + 1) :
                            x \in {DictPut(fd, feedback_key_at(h, elems[i].addr), elems[i])}} : TRUE

\* validation_feedback_reducer on the list objects at left and right
validation_feedback_reducer_at(h, left, right) ==
    LET l == h[left].elems
        r == h[right].elems
    IN  IF r = <<>> /\ l # <<>>
        THEN [heap |-> Append(h, ListObj(<<>>)), cell |-> Ref(Len(h) + 1)]
        ELSE IF r = <<>> THEN [heap |-> h, cell |-> Ref(left)]
        ELSE IF l = <<>> THEN [heap |-> h, cell |-> Ref(right)]
        ELSE [heap |-> Append(h, ListObj(DictValues(put_refs(h, put_refs(h, <<>>, l, 1), r, 1)))),
              cell |-> Ref(Len(h) + 1)]

\* the dicts the arguments of merge_dicts are drawn from
HeapDicts ==
    {D([k \in Keys(a) \cup Keys(b) |-> IF k \in Keys(a) THEN a.items[k] ELSE b.items[k]]) :
        a \in DictsOver({"x"}, Scalars \cup DictsOver({"p"}, Scalars)),
        b \in DictsOver({"y"}, Scalars)}

\* the updates of validation_feedback the validators return on components
HeapUpdates ==
    {generic_domain_validator(WithComponents, c, d, o).validation_feedback :
        c \in {"aws", "azure"}, d \in Domains, o \in {"pass", "issues"}}

\* the lists a validation_feedback channel can hold
FeedbackLists ==
    {<<>>} \cup HeapUpdates \cup {a \o b : a \in HeapUpdates, b \in HeapUpdates}

\* the arguments of a reducer call as objects: two dicts, one dict passed
\* twice, or two lists of feedback items
HeapInputs ==
    UNION {{[heap |-> r.heap, left |-> l.cell, right |-> r.cell, type |-> "dict"] :
               r \in {store(l.heap, v) : v \in HeapDicts}} :
             l \in {store(<<>>, v) : v \in HeapDicts}}
    \cup {[heap |-> l.heap, left |-> l.cell, right |-> l.cell, type |-> "dict"] :
            l \in {store(<<>>, v) : v \in HeapDicts}}
    \cup UNION {{[heap |-> r.heap, left |-> l.cell, right |-> r.cell, type |-> "list"] :
                    r \in {store_list(l.heap, v, 1, <<>>) : v \in HeapUpdates \cup {<<>>}}} :
                  l \in {store_list(<<>>, v, 1, <<>>) : v \in FeedbackLists}}

InitHeap ==
    /\ Parked
    /\ \E in \in HeapInputs :
          call = [fn |-> "reducers_at", type |-> in.type,
                  entry |-> in.heap,        \* the objects at the first call
                  heap |-> in.heap, left |-> in.left, right |-> in.right,
                  reducer |-> "none", result |-> S(0), applications |-> 0]

\* a reducer has been called on the arguments; out is what it returned
Applied(reducer, out) ==
    call' = [call EXCEPT !.heap = out.heap, !.result = out.cell,
                         !.reducer = reducer, !.applications = @ + 1]

ApplyMergeDicts ==
    /\ call.fn = "reducers_at"
    /\ call.type = "dict"
    /\ call.applications < MaxHeapOps
    /\ Applied("merge_dicts", merge_dicts_at(call.heap, call.left.addr, call.right.addr))
    /\ UNCHANGED wfvars

ApplyLastValue ==
    /\ call.fn = "reducers_at"
    /\ call.applications < MaxHeapOps
    /\ Applied("last_value", last_value_at(call.heap, call.left, call.right))
    /\ UNCHANGED wfvars

ApplyFeedbackReducer ==
    /\ call.fn = "reducers_at"
    /\ call.type = "list"
    /\ call.applications < MaxHeapOps
    /\ Applied("validation_feedback_reducer",
               validation_feedback_reducer_at(call.heap, call.left.addr, call.right.addr))
    /\ UNCHANGED wfvars

NextHeap ==
    \/ ApplyMergeDicts
    \/ ApplyLastValue
    \/ ApplyFeedbackReducer

SpecHeap == InitHeap /\ [][NextHeap]_vars

(***************************************************************************)
(* core/execution.py: execute_tool_calls, one step per oracle invocation,  *)
(* backoff sleep, response check and tool call.  call holds the locals of   *)
(* the function and what it did to its collaborators.                      *)
(***************************************************************************)
Msg(kind, id, content, tool_calls) ==
    [kind |-> kind, id |-> id, content |-> content, tool_calls |-> tool_calls]

None == Msg("none", 0, "", <<>>)

\* id: the serial number of the oracle response
AIMessage(id, content, tool_calls) == Msg("ai", id, content, tool_calls)

ToolMessage_noid(content, tool_call_id) == Msg("tool", 0, content, <<>>)

ToolMessage(content, tool_call_id) == Msg("tool", tool_call_id, content, <<>>)

\* the tool table of ToolManager.get_all_tools
tools == {"web_search", "RAG_search"}

\* the names an oracle response may request: a tool of the table, and one
\* that is not in it
RequestedNames == {"web_search", "lookup"}

ToolCall(name, id) == [name |-> name, id |-> id]

\* timeout: Optional[float], the value None
NoTimeout == 0 - 1

\* the timeouts a caller may pass: None, 0, or a positive number of seconds
Timeouts == {NoTimeout} \cup 0..MaxElapsed

\* local_messages of the callers: a system and a human message
CallerMessages == <<Msg("system", 0, "prompt", <<>>), Msg("human", 0, "problem", <<>>)>>

execute_tool_calls_entry(max_iterations, retry_attempts, timeout) ==
    [fn |-> "execute_tool_calls",
     max_iterations |-> max_iterations,
     retry_attempts |-> retry_attempts,
     timeout |-> timeout,            \* seconds, or NoTimeout
     elapsed |-> 0,                  \* the last reading of time.time() - start_time
     pc |-> "while",
     messages |-> CallerMessages,
     tool_iterations |-> 0,
     final_response |-> None,
     response |-> None,
     attempt |-> 0,
     next |-> 1,                     \* position in response.tool_calls
     result |-> None,                \* the returned message
     raised |-> FALSE,               \* an exception left the function
     invocations |-> 0,              \* oracle invocations of the round
     sleeps |-> <<>>,                \* time.sleep arguments of the round
     invoked |-> <<>>,               \* names of the tools invoked
     exhausted |-> FALSE,            \* the last attempt of a round failed
     only_tool_requests |-> TRUE]    \* every round so far ended in a tool request

\* line 38
loop_guard_inclusive(c) == c.tool_iterations <= c.max_iterations

loop_guard(c) == c.tool_iterations < c.max_iterations

\* line 40, 'if timeout and ...': None and 0 are both falsy
timeout_is_set(timeout) == timeout # NoTimeout /\ timeout # 0

\* line 40: 'timeout and (time.time() - start_time) > timeout'
timed_out(timeout, now) == timeout_is_set(timeout) /\ now > timeout

\* lines 38-45: the loop test, the timeout test with the clock reading 'now',
\* the start of the retry loop
loop_test(c, now) ==
    IF ~loop_guard(c) THEN [c EXCEPT !.pc = "exit"]
    ELSE IF timed_out(c.timeout, now) THEN [c EXCEPT !.pc = "exit", !.elapsed = now]
    ELSE [c EXCEPT !.pc = "invoke", !.response = None, !.attempt = 0,
                   !.invocations = 0, !.sleeps = <<>>, !.elapsed = now]

\* line 52
wait_time_linear(attempt) == 2 * attempt

wait_time(attempt) == 2 ^ attempt

\* lines 55-57: the last attempt failed
on_exhausted_raises(c) ==
    [c EXCEPT !.pc = "returned", !.raised = TRUE, !.only_tool_requests = FALSE]

on_exhausted(c) ==
    [c EXCEPT !.pc = "returned", !.result = AIMessage(0, ToolLoopError, <<>>),
              !.only_tool_requests = FALSE]

\* lines 46-57, one attempt: response is the oracle's answer, None with
\* failed = FALSE standing for an answer without content
oracle_attempt(c, failed, response) ==
    LET d == [c EXCEPT !.invocations = @ + 1]
    IN  IF ~failed THEN [d EXCEPT !.response = response, !.pc = "check"]
        ELSE IF c.attempt < c.retry_attempts THEN [d EXCEPT !.pc = "sleep"]
        ELSE on_exhausted([d EXCEPT !.exhausted = TRUE])

\* the timeout is looked at again after the sleep
backoff_observes_timeout(c) ==
    IF timeout_is_set(c.timeout)
    THEN [c EXCEPT !.sleeps = Append(@, wait_time(c.attempt)), !.pc = "exit"]
    ELSE [c EXCEPT !.sleeps = Append(@, wait_time(c.attempt)), !.attempt = @ + 1,
                   !.pc = "invoke"]

\* lines 52-54 and the next turn of the retry loop
backoff(c) ==
    [c EXCEPT !.sleeps = Append(@, wait_time(c.attempt)), !.attempt = @ + 1, !.pc = "invoke"]

\* lines 59-65 and 97-99
check_response(c) ==
    IF c.response = None
    THEN [c EXCEPT !.pc = "exit", !.only_tool_requests = FALSE]
    ELSE IF c.response.tool_calls # <<>>
    THEN [c EXCEPT !.messages = Append(@, c.response), !.next = 1, !.pc = "tools"]
    ELSE [c EXCEPT !.final_response = c.response, !.pc = "exit",
                   !.only_tool_requests = FALSE]

\* line 96 and back to line 38, after the last tool call of the response
end_of_round(c) ==
    IF c.next > Len(c.response.tool_calls)
    THEN [c EXCEPT !.tool_iterations = @ + 1, !.pc = "while"]
    ELSE c

\* lines 68-94 for the tool call at c.next; tool_raises: the tool's invoke raised
run_tool_call_abort(c, tool_raises) ==
    LET tool_call == c.response.tool_calls[c.next]
        tool_name == tool_call.name
    IN  IF tool_name \in tools
        THEN IF tool_raises
             THEN [c EXCEPT !.invoked = Append(@, tool_name), !.pc = "exit"]
             ELSE end_of_round([c EXCEPT
                     !.invoked = Append(@, tool_name),
                     !.messages = Append(@, ToolMessage("tool_result", tool_call.id)),
                     !.next = @ + 1])
        ELSE [c EXCEPT !.pc = "exit"]

run_tool_call(c, tool_raises) ==
    LET tool_call == c.response.tool_calls[c.next]
        tool_name == tool_call.name
    IN  IF tool_name \in tools
        THEN end_of_round([c EXCEPT
                !.invoked = Append(@, tool_name),
                !.messages = Append(@, ToolMessage(IF tool_raises THEN "Error" ELSE "tool_result",
                                                   tool_call.id)),
                !.next = @ + 1])
        ELSE end_of_round([c EXCEPT
                !.messages = Append(@, ToolMessage("Unknown tool", tool_call.id)),
                !.next = @ + 1])

\* a forward scan: the first AIMessage of the list
LastAIMessage_forward(messages) ==
    LET ai == {i \in 1..Len(messages) : messages[i].kind = "ai"}
    IN  IF ai = {} THEN None
        ELSE messages[CHOOSE i \in ai : \A j \in ai : i <= j]

\* lines 102-105: the last AIMessage of the list, None when there is none
LastAIMessage(messages) ==
    LET ai == {i \in 1..Len(messages) : messages[i].kind = "ai"}
    IN  IF ai = {} THEN None
        ELSE messages[CHOOSE i \in ai : \A j \in ai : j <= i]

Sentinel == AIMessage(0, "Tool execution incomplete", <<>>)

\* lines 101-109
finalize_scan_only(final_response, messages) ==
    IF LastAIMessage(messages) # None THEN LastAIMessage(messages) ELSE Sentinel

finalize(final_response, messages) ==
    IF final_response # None THEN final_response
    ELSE IF LastAIMessage(messages) # None THEN LastAIMessage(messages)
    ELSE Sentinel

\* --- the oracle and the tools -------------------------------------------
\* tool calls requested so far
Requested(c) ==
    LET ai == {i \in 1..Len(c.messages) : c.messages[i].kind = "ai"}
        RECURSIVE Sum(_)
        Sum(I) == IF I = {} THEN 0
                  ELSE LET i == CHOOSE x \in I : TRUE
                       IN  Len(c.messages[i].tool_calls) + Sum(I \ {i})
    IN  Sum(ai)

\* the answers the oracle may give in this round: no tool request, or one to
\* MaxCalls of them
OracleResponses(c) ==
    LET serial == c.tool_iterations + 1
        room == MaxRequested - Requested(c)
    IN  {AIMessage(serial, "answer", <<>>)} \cup
        {AIMessage(serial, "", [j \in 1..Len(names) |-> ToolCall(names[j], 10 * serial + j)]) :
            names \in UNION {[1..m -> RequestedNames] : m \in {k \in 1..MaxCalls : k <= room}}}

InitTool ==
    /\ Parked
    /\ \E mi \in 0..MaxToolIter, ra \in 0..MaxRetry, to \in Timeouts :
          call = execute_tool_calls_entry(mi, ra, to)

InTool(pc) == call.fn = "execute_tool_calls" /\ call.pc = pc

LoopTest ==
    /\ InTool("while")
    /\ \E now \in call.elapsed..MaxElapsed : call' = loop_test(call, now)
    /\ UNCHANGED wfvars

InvokeOracle ==
    /\ InTool("invoke")
    /\ \/ call' = oracle_attempt(call, TRUE, None)
       \/ \E response \in OracleResponses(call) \cup {None} :
             call' = oracle_attempt(call, FALSE, response)
    /\ UNCHANGED wfvars

Backoff ==
    /\ InTool("sleep")
    /\ call' = backoff(call)
    /\ UNCHANGED wfvars

CheckResponse ==
    /\ InTool("check")
    /\ call' = check_response(call)
    /\ UNCHANGED wfvars

RunToolCall ==
    /\ InTool("tools")
    /\ \E tool_raises \in BOOLEAN : call' = run_tool_call(call, tool_raises)
    /\ UNCHANGED wfvars

Return ==
    /\ InTool("exit")
    /\ call' = [call EXCEPT !.result = finalize(call.final_response, call.messages),
                            !.pc = "returned"]
    /\ UNCHANGED wfvars

NextTool ==
    \/ LoopTest
    \/ InvokeOracle
    \/ Backoff
    \/ CheckResponse
    \/ RunToolCall
    \/ Return

SpecTool == InitTool /\ [][NextTool]_vars

\* the oracle and the tools answer or raise, and the function keeps running
FairSpecTool == SpecTool /\ WF_vars(NextTool)

(***************************************************************************)
(* nodes/supervisor.py: the retry loop around the structured oracle call   *)
(* of architect_supervisor (lines 81-99) and the outer try/except          *)
(***************************************************************************)
\* what structured_llm.invoke does on one attempt: it raises, returns None,
\* returns a decomposition without tasks, or returns one with tasks
OracleBehaviours == {"raise", "none", "empty", "tasks"}

\* oracle[i] is the behaviour of the i-th invocation
architect_supervisor_entry(max_retries, oracle) ==
    [fn |-> "architect_supervisor",
     max_retries |-> max_retries,
     oracle |-> oracle,
     pc |-> "for",
     attempt |-> 0,
     task_decomposition |-> "None",  \* "None", "empty" or "tasks"
     invocations |-> 0,              \* calls of structured_llm.invoke
     sleeps |-> <<>>,                \* arguments of the completed time.sleep calls
     outcome |-> "none",             \* the update returned: "ok", "ok_empty", "fail"
     error |-> "none"]               \* the exception the outer except caught

\* lines 125-130: the outer except returns the error-flagged update
outer_except(c, error) ==
    [c EXCEPT !.pc = "returned", !.outcome = "fail", !.error = error]

\* lines 83-96, one pass of 'for attempt in range(max_retries)'
structured_attempt(c) ==
    IF c.attempt >= c.max_retries THEN [c EXCEPT !.pc = "after_loop"]
    ELSE LET d == [c EXCEPT !.invocations = @ + 1]
             behaviour == c.oracle[c.attempt + 1]
         IN  CASE behaviour = "tasks" ->
                    [d EXCEPT !.task_decomposition = "tasks", !.pc = "after_loop"]
               [] behaviour = "empty" ->
                    [d EXCEPT !.task_decomposition = "empty", !.attempt = @ + 1]
               [] behaviour = "none" ->
                    [d EXCEPT !.task_decomposition = "None", !.attempt = @ + 1]
               [] behaviour = "raise" ->
                    IF c.attempt < c.max_retries - 1
                    THEN [d EXCEPT !.pc = "sleep"]
                    ELSE outer_except(d, "oracle")

\* line 94, 'time.sleep(2 ** attempt)': the module has no 'import time'
\* (lines 6-10), so evaluating the name raises NameError inside the except
\* body; it is raised within the outer try and caught at line 125
sleep_before_retry(c) == outer_except(c, "NameError")

\* lines 98-123: after the loop
after_loop(c) ==
    IF c.task_decomposition = "None" THEN outer_except(c, "ValueError")
    ELSE [c EXCEPT !.pc = "returned",
                   !.outcome = IF c.task_decomposition = "tasks" THEN "ok" ELSE "ok_empty"]

InitRetry ==
    /\ Parked
    /\ \E max_retries \in 0..MaxSupRetries, oracle \in [1..MaxSupRetries -> OracleBehaviours] :
          call = architect_supervisor_entry(max_retries, oracle)

InRetry(pc) == call.fn = "architect_supervisor" /\ call.pc = pc

StructuredAttempt ==
    /\ InRetry("for")
    /\ call' = structured_attempt(call)
    /\ UNCHANGED wfvars

SleepBeforeRetry ==
    /\ InRetry("sleep")
    /\ call' = sleep_before_retry(call)
    /\ UNCHANGED wfvars

AfterLoop ==
    /\ InRetry("after_loop")
    /\ call' = after_loop(call)
    /\ UNCHANGED wfvars

NextRetry ==
    \/ StructuredAttempt
    \/ SleepBeforeRetry
    \/ AfterLoop

SpecRetry == InitRetry /\ [][NextRetry]_vars

(***************************************************************************)
(* Properties                                                              *)
(***************************************************************************)
Max2(a, b) == IF a >= b THEN a ELSE b

\* the state the architects of a pass start from: the supervisor's update
\* has just been merged
SupervisorMerged == ~ended /\ active = Architects(provider) /\ writes = NoWrites

\* the conditional edge of the pass has been evaluated
Decided == hist.decision # "none"

\* C1: iteration_condition returns 'iterate' when iteration_count <
\* min_iterations, 'iterate' when has_errors and iteration_count <
\* max_iterations, 'finish' otherwise; (0,2,3,false) and (2,2,3,true) give
\* iterate, (3,2,3,true) and (2,2,3,false) give finish.
C1_ControllerTable ==
    (call.fn = "iteration_condition" /\ call.out # "none") =>
        LET i == call.st.iteration_count
            mn == call.st.min_iterations
            mx == call.st.max_iterations
            e == IF "has_validation_errors" \in DOMAIN call.st
                 THEN call.st.has_validation_errors ELSE FALSE
        IN  /\ (i < mn) => call.out = "iterate"
            /\ (e /\ i < mx) => call.out = "iterate"
            /\ (~(i < mn) /\ ~(e /\ i < mx)) => call.out = "finish"
            /\ (<<i, mn, mx, e>> \in {<<0, 2, 3, FALSE>>, <<2, 2, 3, TRUE>>}) => call.out = "iterate"
            /\ (<<i, mn, mx, e>> \in {<<3, 2, 3, TRUE>>, <<2, 2, 3, FALSE>>}) => call.out = "finish"

C1_Witness ==
    /\ call.fn = "iteration_condition"
    /\ call.out = "iterate"
    /\ call.st.iteration_count = 2
    /\ call.st.min_iterations = 2
    /\ call.st.max_iterations = 3
    /\ "has_validation_errors" \in DOMAIN call.st
    /\ call.st.has_validation_errors

\* C2 as stated: architect_supervisor runs at most max_iterations times in a
\* run, and the loop-back edge is never taken once iteration_count >=
\* max_iterations, for every min_iterations and max_iterations.
C2_AtMostMaxPasses ==
    /\ hist.sup_runs <= state.max_iterations
    /\ hist.loop_at # -1 => hist.loop_at < state.max_iterations

\* C2 amended: architect_supervisor runs at most max(1, min_iterations,
\* max_iterations) times in a run, and the loop-back edge is never taken once
\* iteration_count >= max(min_iterations, max_iterations).
C2_AtMostMaxOfMinMaxPasses ==
    /\ hist.sup_runs <= Max2(1, Max2(state.min_iterations, state.max_iterations))
    /\ hist.loop_at # -1 =>
          hist.loop_at < Max2(state.min_iterations, state.max_iterations)

C2_Witness ==
    /\ ended
    /\ hist.loop_at # -1
    /\ state.min_iterations > state.max_iterations
    /\ hist.sup_runs = state.min_iterations

\* C3: every run eventually runs final_architecture_generator and reaches
\* END, given that every handler returns: the cycle validation_synthesizer ->
\* architect_supervisor is not taken infinitely often.
C3_RunTerminates == <>(ended /\ hist.final_runs = 1)

C3_Witness == ended /\ hist.final_runs = 1 /\ hist.loop_at # -1 /\ hist.pass_errors

\* C4: when a validator of the pass reported has_errors = true and
\* iteration_count < max_iterations after the validation join, the
\* conditional edge selects 'iterate'.
C4_ValidatorErrorsForceIterate ==
    (Decided /\ hist.pass_errors /\ state.iteration_count < state.max_iterations)
        => hist.decision = "iterate"

\* C5: when architect_supervisor failed to obtain a decomposition, its update
\* sets the shared error flag, and at the next evaluation of the controller
\* that flag forces 'iterate' whenever iteration_count < max_iterations.
C5_SupervisorFailureForcesIterate ==
    /\ (SupervisorMerged /\ hist.sup_outcome = "fail") => state.factual_errors_exist
    /\ (Decided /\ hist.sup_outcome = "fail" /\ state.factual_errors_exist
          /\ state.iteration_count < state.max_iterations)
        => hist.decision = "iterate"

\* C6: final_architecture_generator never starts while iteration_count <
\* min_iterations; a run passes at least min_iterations times through
\* architect_supervisor, also when min_iterations > max_iterations.
C6_MinPassesBeforeFinal ==
    (final_generator_node \in active \/ hist.final_runs > 0) =>
        /\ state.iteration_count >= state.min_iterations
        /\ hist.sup_runs >= state.min_iterations

C6_Witness ==
    /\ final_generator_node \in active
    /\ state.min_iterations > state.max_iterations
    /\ state.max_iterations > 0
    /\ hist.sup_runs = state.min_iterations

\* C7: after the successful update of architect_supervisor in a loop-back
\* pass has been merged, architecture_components is empty.
C7_ComponentsClearedOnLoopBack ==
    (SupervisorMerged /\ hist.sup_outcome # "fail" /\ hist.loop_at # -1)
        => Keys(state.architecture_components) = {}

\* C8: merging the empty list into a non-empty feedback list resets it, so
\* after the successful update of architect_supervisor has been merged
\* validation_feedback is empty and factual_errors_exist is false.
C8_FeedbackAndFlagReset ==
    (SupervisorMerged /\ hist.sup_outcome # "fail") =>
        /\ state.validation_feedback = <<>>
        /\ ~state.factual_errors_exist

C8_Witness ==
    /\ SupervisorMerged
    /\ hist.sup_outcome = "ok"
    /\ hist.fb_before
    /\ hist.flag_before
    /\ state.validation_feedback = <<>>

\* C9: the reducer identifies the items the validators produce by (domain,
\* hash of the result text): an item of the list with the domain and the
\* result text of the merged item is replaced by it, leaving one entry; an
\* item that differs from it in domain or in result text is kept next to it.
C9_FingerprintDomainAndText ==
    (call.fn = "validation_feedback_reducer" /\ call.ops > 0
       /\ call.left # <<>> /\ call.right # <<>>) =>
        LET b == call.right[1]
            Out == {call.out[i] : i \in 1..Len(call.out)}
        IN  \A j \in 1..Len(call.left) :
               LET a == call.left[j]
               IN  IF a.domain = b.domain /\ md5_8(a.result) = md5_8(b.result)
                   THEN /\ b \in Out
                        /\ Cardinality({i \in 1..Len(call.out) :
                              /\ call.out[i].domain = b.domain
                              /\ call.out[i].result = b.result}) = 1
                   ELSE a \in Out /\ b \in Out

\* C10: merge_dicts is the recursive deep merge: a key of both sides with
\* dicts on both sides is merged recursively, any other key of right takes
\* right's value, a key of left alone is kept; {x:{p:1}} with {x:{q:2}} gives
\* {x:{p:1,q:2}} and {x:1} with {x:2} gives {x:2}.
RECURSIVE IsDeepMerge(_, _, _)
IsDeepMerge(left, right, out) ==
    /\ IsDict(out)
    /\ Keys(out) = Keys(left) \cup Keys(right)
    /\ \A k \in Keys(out) :
          IF k \notin Keys(right) THEN out.items[k] = left.items[k]
          ELSE IF k \in Keys(left) /\ IsDict(left.items[k]) /\ IsDict(right.items[k])
          THEN IsDeepMerge(left.items[k], right.items[k], out.items[k])
          ELSE out.items[k] = right.items[k]

C10_DeepMerge ==
    (call.fn = "merge_dicts" /\ call.done) =>
        /\ IsDeepMerge(call.left, call.right, call.out)
        /\ (call.left = Single("x", Single("p", S(1))) /\ call.right = Single("x", Single("q", S(2))))
              => call.out = Single("x", D([k \in {"p", "q"} |-> IF k = "p" THEN S(1) ELSE S(2)]))
        /\ (call.left = Single("x", S(1)) /\ call.right = Single("x", S(2)))
              => call.out = Single("x", S(2))

C10_Witness ==
    /\ call.fn = "merge_dicts"
    /\ call.done
    /\ call.left = Single("x", Single("p", S(1)))
    /\ call.right = Single("x", Single("q", S(2)))
    /\ call.out = Single("x", D([k \in {"p", "q"} |-> IF k = "p" THEN S(1) ELSE S(2)]))

\* the paths of a nested dict down to its leaves (a scalar or an empty dict)
RECURSIVE LeafPaths(_)
LeafPaths(d) ==
    UNION {IF IsDict(d.items[k]) /\ Keys(d.items[k]) # {}
           THEN {<<k>> \o p : p \in LeafPaths(d.items[k])}
           ELSE {<<k>>} : k \in Keys(d)}

IsPrefix(p, q) == Len(p) <= Len(q) /\ SubSeq(q, 1, Len(p)) = p

\* two updates touch disjoint sub-keys: no path of one lies on a path of the other
TouchDisjoint(a, b) ==
    \A p \in LeafPaths(a), q \in LeafPaths(b) : ~IsPrefix(p, q) /\ ~IsPrefix(q, p)

\* C11: for merge_dicts and for the boolean-OR reducer, two updates a and b
\* that touch disjoint sub-keys give the same state in either order:
\* merge(merge(s,a),b) = merge(merge(s,b),a).
C11_DisjointUpdatesCommute ==
    (call.fn = "reducer_order" /\ call.done) =>
        /\ (call.field = "architecture_components" /\ TouchDisjoint(call.a, call.b))
              => call.ab = call.ba
        /\ call.field = "design_flaws_exist" => call.ab = call.ba

C11_Witness ==
    /\ call.fn = "reducer_order"
    /\ call.done
    /\ call.field = "architecture_components"
    /\ call.s = Single("x", Single("p", S(2)))
    /\ call.a = Single("x", Single("p", S(1)))
    /\ call.b = Single("x", Single("q", S(2)))
    /\ call.ab = Single("x", D([k \in {"p", "q"} |-> IF k = "p" THEN S(1) ELSE S(2)]))
    /\ call.ba = call.ab

Fingerprints(items) == {feedback_key(items[i]) : i \in 1..Len(items)}

\* C12: for validation_feedback_reducer, two updates a and b whose items have
\* disjoint fingerprints give the same stored list in either order:
\* merge(merge(s,a),b) = merge(merge(s,b),a).
C12_DisjointFeedbackCommutes ==
    (call.fn = "reducer_order" /\ call.done /\ call.field = "validation_feedback"
       /\ Fingerprints(call.a) \cap Fingerprints(call.b) = {})
        => call.ab = call.ba

\* the scheduler merges the updates of the nodes that ran
MergeStep == writes # NoWrites /\ writes' = NoWrites

\* field k after the updates w of the nodes in order, each update that names
\* k folded in by k's reducer
RECURSIVE FoldField(_, _, _, _, _)
FoldField(k, v, w, order, i) ==
    IF i > Len(order) THEN v
    ELSE CHOOSE r \in {FoldField(k, x, w, order, i + 1) :
                          x \in {IF k \in DOMAIN w[order[i]]
                                 THEN Reducer(k, v, w[order[i]][k]) ELSE v}} : TRUE

C14_WritesAndReadsInSchema ==
    /\ \A n \in DOMAIN writes : DOMAIN writes[n] \subseteq SchemaKeys
    /\ Decided => ControllerReads \subseteq SchemaKeys

\* positions of the oracle's messages in the message list
AIPositions == {i \in 1..Len(call.messages) : call.messages[i].kind = "ai"}

\* C15: with an oracle that requests a tool in every round, execute_tool_calls
\* terminates after at most max_iterations tool rounds, raises nothing, and
\* returns the most recent oracle message, or the 'Tool execution incomplete'
\* sentinel when there is none.
C15_ToolLoopBounded ==
    /\ <>InTool("returned")
    /\ [](call.only_tool_requests =>
            /\ call.tool_iterations <= call.max_iterations
            /\ ~call.raised
            /\ InTool("returned") =>
                  IF call.tool_iterations = 0
                  THEN call.result = Sentinel
                  ELSE /\ call.result.kind = "ai"
                       /\ call.result.id = call.tool_iterations
                       /\ call.result.tool_calls # <<>>
                       /\ \E i \in AIPositions :
                             /\ call.messages[i] = call.result
                             /\ \A j \in AIPositions : j <= i)

C15_Witness ==
    /\ InTool("returned")
    /\ call.only_tool_requests
    /\ call.max_iterations = 2
    /\ call.tool_iterations = 2
    /\ call.result.id = 2
    /\ call.result.tool_calls # <<>>

\* C16: an oracle invocation that fails k <= retry_attempts times and then
\* succeeds yields the successful response after exactly k sleeps of 2^0,
\* 2^1, ..., 2^(k-1) seconds in that order; for k = 2 the sleeps add up to 3.
C16_BackoffSchedule ==
    InTool("check") =>
        LET k == call.invocations - 1
        IN  /\ k <= call.retry_attempts
            /\ call.sleeps = [i \in 1..k |-> 2 ^ (i - 1)]
            /\ k = 2 => call.sleeps[1] + call.sleeps[2] = 3

C16_Witness ==
    /\ InTool("check")
    /\ call.invocations = 3
    /\ call.sleeps = <<1, 2>>
    /\ call.response.kind = "ai"

\* C17: when the oracle fails on retry_attempts + 1 consecutive attempts of a
\* round, the call returns an error-valued message at once: no sleep follows
\* the last failed attempt, no oracle or tool invocation follows it, and no
\* exception leaves the function.
C17_ExhaustionReturnsError ==
    /\ [](call.exhausted =>
            /\ InTool("returned")
            /\ ~call.raised
            /\ call.result = AIMessage(0, "Error", <<>>)
            /\ call.invocations = call.retry_attempts + 1
            /\ Len(call.sleeps) = call.retry_attempts)
    /\ [][(~call.exhausted /\ call'.exhausted) =>
            /\ call'.sleeps = call.sleeps
            /\ call'.invoked = call.invoked
            /\ call'.messages = call.messages]_vars
    /\ [][call.exhausted => UNCHANGED call]_vars

C17_Witness ==
    /\ InTool("returned")
    /\ call.exhausted
    /\ call.retry_attempts = 2
    /\ call.sleeps = <<1, 2>>
    /\ call.tool_iterations = 1
    /\ call.result.content = "Error"

\* C18: the first oracle response without tool requests ends the loop and is
\* the returned value; no oracle or tool invocation happens after it.
C18_TerminalResponseReturned ==
    /\ [][(InTool("check") /\ call.response # None /\ call.response.tool_calls = <<>>) =>
            /\ call'.final_response = call.response
            /\ call'.pc = "exit"]_vars
    /\ [][call.final_response # None =>
            /\ call'.pc = "returned"
            /\ call'.invocations = call.invocations
            /\ call'.invoked = call.invoked
            /\ call'.messages = call.messages]_vars
    /\ [](call.final_response # None =>
            /\ \A i \in AIPositions : call.messages[i].tool_calls # <<>>
            /\ InTool("returned") => call.result = call.final_response)

C18_Witness ==
    /\ InTool("returned")
    /\ call.final_response # None
    /\ call.tool_iterations = 1
    /\ call.result = call.final_response
    /\ call.result.id = 2

\* the results that follow the oracle message at position i: all of its
\* requests, or those before c.next while its round is running
ResultsAfter(i) ==
    IF call.pc = "tools" /\ \A j \in AIPositions : j <= i
    THEN call.next - 1
    ELSE Len(call.messages[i].tool_calls)

RECURSIVE SumResults(_)
SumResults(I) ==
    IF I = {} THEN 0
    ELSE LET i == CHOOSE x \in I : TRUE IN 1 + ResultsAfter(i) + SumResults(I \ {i})

\* C19: in each tool round the oracle's message is appended first, then one
\* result message per requested tool call, in request order and carrying that
\* call's id; the tool-round counter grows by one per round, whatever the
\* number of calls.
C19_RoundAppendsInOrder ==
    call.fn = "execute_tool_calls" =>
        /\ \A i \in AIPositions :
              \A j \in 1..ResultsAfter(i) :
                 /\ i + j <= Len(call.messages)
                 /\ call.messages[i + j].kind = "tool"
                 /\ call.messages[i + j].id = call.messages[i].tool_calls[j].id
        /\ Len(call.messages) = Len(CallerMessages) + SumResults(AIPositions)
        /\ call.tool_iterations =
              Cardinality(AIPositions) - (IF call.pc = "tools" THEN 1 ELSE 0)

C19_Witness ==
    /\ InTool("while")
    /\ call.tool_iterations = 1
    /\ Len(call.response.tool_calls) = 2
    /\ Len(call.messages) = 5
    /\ call.messages[3] = call.response
    /\ call.messages[5].id = call.response.tool_calls[2].id

\* C20: a request for an unknown tool and a tool invocation that raises each
\* become a textual result message appended to the list; neither invokes
\* another tool instead, neither ends the loop, and the remaining requests of
\* the round are still executed.
C20_ToolFailuresAreResults ==
    [][InTool("tools") =>
          LET tool_call == call.response.tool_calls[call.next]
              appended == call'.messages[Len(call'.messages)]
          IN  /\ Len(call'.messages) = Len(call.messages) + 1
              /\ appended.kind = "tool"
              /\ appended.id = tool_call.id
              /\ IF tool_call.name \in tools
                 THEN /\ call'.invoked = Append(call.invoked, tool_call.name)
                      /\ appended.content \in {"tool_result", "Error"}
                 ELSE /\ call'.invoked = call.invoked
                      /\ appended.content = "Unknown tool"
              /\ IF call.next < Len(call.response.tool_calls)
                 THEN call'.pc = "tools" /\ call'.next = call.next + 1
                 ELSE call'.pc = "while"]_vars

C20_Witness ==
    /\ InTool("while")
    /\ call.tool_iterations = 1
    /\ Len(call.messages) = 5
    /\ call.messages[3].tool_calls[1].name = "lookup"
    /\ call.messages[4].content = "Unknown tool"
    /\ call.messages[5].content = "Error"
    /\ call.invoked = <<"web_search">>

\* C21: when the loop is left without a terminal oracle response (timeout,
\* round limit, or empty response), the most recent oracle message of the
\* message list is returned, and the 'Tool execution incomplete' sentinel
\* only when the list holds no oracle message.
C21_FallbackToLastOracleMessage ==
    (InTool("returned") /\ call.final_response = None /\ ~call.exhausted) =>
        IF AIPositions = {}
        THEN call.result = Sentinel
        ELSE /\ call.result # Sentinel
             /\ \E i \in AIPositions :
                   /\ call.result = call.messages[i]
                   /\ \A j \in AIPositions : j <= i

\* left by an empty response in the second round
C21_Witness ==
    /\ InTool("returned")
    /\ call.final_response = None
    /\ ~call.exhausted
    /\ call.response = None
    /\ call.invocations >= 1
    /\ call.tool_iterations = 1
    /\ call.max_iterations = 2
    /\ call.result.id = 1

\* C22: a round (a new oracle invocation) starts only while the tool-round
\* count is below max_iterations and the elapsed time is below timeout; for
\* every timeout value, 0 included, no round starts once elapsed >= timeout.
C22_RoundStartsBelowTimeout ==
    [][(InTool("while") /\ call'.pc = "invoke") =>
          /\ call.tool_iterations < call.max_iterations
          /\ call.timeout # NoTimeout => call'.elapsed < call.timeout]_vars

\* the domain names a validator's feedback item can carry
ReportedAs(v) == {v.domain, component_key(v.cloud, v.domain)}

FeedbackDomains(fb) == {fb[i].domain : i \in 1..Len(fb)}

\* C23: a node with several predecessors (architect_synthesizer,
\* validation_synthesizer) runs exactly once per pass, only after every
\* predecessor branch of the pass has returned, on a state that holds the
\* merged update of every one of those branches, whatever the order the
\* branches returned in; for the providers AWS, Azure and All.
C23_JoinOnceWithAllBranches ==
    /\ [](/\ hist.asyn_runs <= hist.sup_runs
          /\ hist.sup_runs <= hist.asyn_runs + 1
          /\ hist.vsyn_runs <= hist.asyn_runs
          /\ hist.asyn_runs <= hist.vsyn_runs + 1
          /\ architect_synthesizer_node \in active =>
                /\ active = {architect_synthesizer_node}
                /\ hist.asyn_runs + (IF architect_synthesizer_node \in DOMAIN writes THEN 0 ELSE 1)
                      = hist.sup_runs
                /\ \A a \in Architects(provider) :
                      component_key(a.cloud, a.domain) \in Keys(state.architecture_components)
          /\ validation_synthesizer_node \in active =>
                /\ active = {validation_synthesizer_node}
                /\ hist.vsyn_runs + (IF validation_synthesizer_node \in DOMAIN writes THEN 0 ELSE 1)
                      = hist.sup_runs
                /\ \A v \in Validators(provider) :
                      ReportedAs(v) \cap FeedbackDomains(state.validation_feedback) # {})
    /\ [][(MergeStep /\ active \subseteq Architects(provider)) =>
             /\ active = Architects(provider)
             /\ active' = {architect_synthesizer_node}
             /\ \A a \in active :
                   LET key == component_key(a.cloud, a.domain)
                   IN  /\ key \in Keys(state'.architecture_components)
                       /\ state'.architecture_components.items[key]
                             = apply_update(state, writes[a]).architecture_components.items[key]]_vars
    /\ [][(MergeStep /\ active \subseteq Validators(provider)) =>
             /\ active = Validators(provider)
             /\ active' = {validation_synthesizer_node}
             /\ \A v \in active :
                   \E i \in 1..Len(state'.validation_feedback) :
                      state'.validation_feedback[i] = writes[v].validation_feedback[1]]_vars

\* the second pass under provider All, every validator's item in the state
C23_Witness ==
    /\ provider = "ALL"
    /\ active = {validation_synthesizer_node}
    /\ writes = NoWrites
    /\ hist.sup_runs = 2
    /\ Len(state.validation_feedback) = Cardinality(Validators("ALL"))

C25_ConditionalEdgeOncePerPass ==
    /\ [](/\ hist.cond_evals <= hist.vsyn_runs
          /\ hist.vsyn_runs <= hist.cond_evals + 1
          /\ hist.decision \in {"none", "iterate", "finish"})
    /\ [][(MergeStep /\ validation_synthesizer_node \in active) =>
             /\ hist'.cond_evals = hist.cond_evals + 1
             /\ hist'.cond_evals = hist.vsyn_runs
             /\ state'.validation_summary =
                   writes[validation_synthesizer_node].validation_summary
             /\ hist'.decision = iteration_condition(state')
             /\ hist'.decision \in {"iterate", "finish"}
             /\ hist'.decision = "iterate" => active' = {architect_supervisor_node}
             /\ hist'.decision = "finish" => active' = {final_generator_node}
             /\ active' \subseteq RegisteredNodes(provider)]_vars
    /\ [][(MergeStep /\ validation_synthesizer_node \notin active) =>
             hist'.cond_evals = hist.cond_evals]_vars

\* the edge was evaluated twice, once to 'iterate' and once to 'finish'
C25_Witness ==
    /\ hist.cond_evals = 2
    /\ hist.decision = "finish"
    /\ active = {final_generator_node}
    /\ state.validation_summary = "summary"

\* C26: no handler's update names the shared 'messages' field, and the
\* field is at END what it was in the initial state.
C26_MessagesNeverWritten ==
    /\ [](\A n \in DOMAIN writes : "messages" \notin DOMAIN writes[n])
    /\ [][state'.messages = state.messages]_vars

\* END after architects and validators (the callers of the tool loop) ran
C26_Witness ==
    /\ ended
    /\ hist.final_runs = 1
    /\ state.messages = <<>>
    /\ state.validation_feedback # <<>>
    /\ \E k \in Keys(state.architecture_components) :
          TextOf(state.architecture_components.items[k], "recommendations") = "recommendation"

\* a branch whose tool loop gave up on the oracle has returned
OracleErrorInBranch ==
    \E n \in DOMAIN writes :
       \/ /\ n.role = "architect"
          /\ writes[n] = generic_domain_architect(state, n.cloud, n.domain, "oracle_error")
          /\ writes[n] # generic_domain_architect(state, n.cloud, n.domain, "ok")
       \/ /\ n.role = "validator"
          /\ writes[n] = generic_domain_validator(state, n.cloud, n.domain, "oracle_error")
          /\ writes[n] # generic_domain_validator(state, n.cloud, n.domain, "pass")

\* C27: an oracle failure that exhausts the retries inside the tool loop of
\* an architect or validator branch does not abort the run: the branch
\* returns an update, the join fires, and the run reaches END.
C27_OracleErrorDoesNotAbort ==
    /\ [](\A n \in DOMAIN writes :
             n.role \in {"architect", "validator"} => writes[n] # Escaped)
    /\ [](~hist.aborted)
    /\ (OracleErrorInBranch /\ active = Architects(provider))
          ~> (active = {architect_synthesizer_node})
    /\ (OracleErrorInBranch /\ active = Validators(provider))
          ~> (active = {validation_synthesizer_node})
    /\ OracleErrorInBranch ~> (ended /\ hist.final_runs = 1)

\* END, with the error message of a validator's tool loop in the feedback
C27_Witness ==
    /\ ended
    /\ ~hist.aborted
    /\ hist.final_runs = 1
    /\ \E i \in 1..Len(state.validation_feedback) :
          state.validation_feedback[i].result = ToolLoopError

\* C28: every handler turns a fault of its oracle or tool collaborators
\* into a returned partial update; no fault leaves a handler and aborts the
\* run.
C28_FaultsBecomeUpdates ==
    /\ ~hist.aborted
    /\ \A n \in DOMAIN writes :
          /\ writes[n] # Escaped
          /\ DOMAIN writes[n] \subseteq SchemaKeys \cup {"has_validation_errors"}
          /\ DOMAIN writes[n] # {}

\* END after the supervisor's structured call raised
C28_Witness ==
    /\ ended
    /\ hist.sup_outcome = "fail"
    /\ hist.sup_runs = 1
    /\ hist.final_runs = 1
    /\ state.factual_errors_exist

\* C29: at END final_architecture is set: it holds the generated document
\* or, when the final generation failed, a placeholder with the error text.
C29_FinalArchitectureSet ==
    (ended /\ ~hist.aborted) =>
        /\ IsDict(state.final_architecture)
        /\ "document" \in Keys(state.final_architecture)
        /\ \/ /\ state.final_architecture.items["document"] = S("final document")
              /\ "error" \notin Keys(state.final_architecture)
           \/ /\ state.final_architecture.items["document"] = S("Error")
              /\ "error" \in Keys(state.final_architecture)

\* END after the final generation failed
C29_Witness ==
    /\ ended
    /\ IsDict(state.final_architecture)
    /\ "error" \in Keys(state.final_architecture)

\* the invocations of the structured call that raised
RaisedAt == {i \in 1..call.invocations : call.oracle[i] = "raise"}

\* the backoff the raises before the last attempt ask for: 2 ^ attempt
RECURSIVE BackoffFrom(_, _)
BackoffFrom(i, n) ==
    IF i > n THEN <<>>
    ELSE (IF i \in RaisedAt /\ i < call.max_retries THEN <<2 ^ (i - 1)>> ELSE <<>>)
         \o BackoffFrom(i + 1, n)

\* C30: when the structured oracle call of architect_supervisor raises, the
\* call is retried until max_retries attempts have been made, with a backoff
\* of 2^attempt seconds between the attempts, before the node reports
\* failure.
C30_RetriedUntilMaxRetries ==
    InRetry("returned") =>
        /\ (call.outcome = "fail" /\ RaisedAt # {}) => call.invocations = call.max_retries
        /\ call.sleeps = BackoffFrom(1, call.invocations)

\* C31: when every attempt of architect_supervisor returns a decomposition
\* without tasks, the node reports the error-flagged update (the error flag
\* set), not a successful update.
C31_NoTasksReportsError ==
    (/\ InRetry("returned")
     /\ call.max_retries >= 1
     /\ call.invocations = call.max_retries
     /\ \A i \in 1..call.invocations : call.oracle[i] = "empty")
        => /\ call.outcome = "fail"
           /\ architect_supervisor(state, call.outcome).factual_errors_exist

\* C35: after the validation join of a pass the error flag
\* factual_errors_exist is true whenever a validator branch of the pass
\* reported has_errors = true, whatever the order the validators' updates
\* are merged in.
C35_ErrorFlagAfterValidationJoin ==
    (validation_synthesizer_node \in active /\ hist.pass_errors)
        => state.factual_errors_exist

\* C36: architect_supervisor sets iteration_count to its previous value plus
\* one on its success path and on its failure path, and no other node
\* writes iteration_count; iteration_count is the number of executions of
\* architect_supervisor whose update has been merged.
C36_IterationCountCountsSupervisorRuns ==
    /\ state.iteration_count + (IF architect_supervisor_node \in DOMAIN writes THEN 1 ELSE 0)
          = hist.sup_runs
    /\ \A n \in DOMAIN writes :
          IF n = architect_supervisor_node
          THEN /\ "iteration_count" \in DOMAIN writes[n]
               /\ writes[n].iteration_count = state.iteration_count + 1
          ELSE "iteration_count" \notin DOMAIN writes[n]

\* the second execution took the failure path and has been merged
C36_Witness ==
    /\ hist.sup_runs = 2
    /\ hist.sup_outcome = "fail"
    /\ state.iteration_count = 2
    /\ active = Architects(provider)

PassPhase(k) ==
    CASE k = 1 -> {architect_supervisor_node}
      [] k = 2 -> Architects(provider)
      [] k = 3 -> {architect_synthesizer_node}
      [] k = 4 -> ValidatorSupervisors(provider)
      [] k = 5 -> Validators(provider)
      [] k = 6 -> {validation_synthesizer_node}

\* C38: within each pass the nodes run in the order architect_supervisor,
\* all architects, architect_synthesizer, validator supervisor(s), all
\* validators, validation_synthesizer; final_architecture_generator runs
\* exactly once per run, after the last validation_synthesizer, and no node
\* runs after it.
C38_PassOrderAndSingleFinal ==
    /\ [](/\ \/ \E k \in 1..6 : active = PassPhase(k)
             \/ active = {final_generator_node}
             \/ active = {} /\ ended
          /\ DOMAIN writes \subseteq active
          /\ hist.final_runs <= 1
          /\ ended => hist.final_runs = 1
          /\ hist.final_runs = 1 => active \subseteq {final_generator_node}
          /\ active = {final_generator_node} =>
                /\ hist.vsyn_runs = hist.sup_runs
                /\ hist.sup_runs >= 1
                /\ hist.decision = "finish")
    /\ [][MergeStep =>
             /\ \A k \in 1..5 : active = PassPhase(k) => active' = PassPhase(k + 1)
             /\ active = PassPhase(6) =>
                   \/ active' = PassPhase(1) /\ hist'.decision = "iterate"
                   \/ active' = {final_generator_node} /\ hist'.decision = "finish"
             /\ active = {final_generator_node} => active' = {} /\ ended']_vars
    /\ [][writes' # writes =>
             \/ MergeStep
             \/ \E n \in active \ DOMAIN writes : DOMAIN writes' = DOMAIN writes \cup {n}]_vars
    /\ [][ended => UNCHANGED vars]_vars

\* END after two passes under provider All
C38_Witness ==
    /\ provider = "ALL"
    /\ ended
    /\ hist.sup_runs = 2
    /\ hist.vsyn_runs = 2
    /\ hist.final_runs = 1

\* the nodes reachable from the set from along the edges E, from included
RECURSIVE ReachFrom(_, _)
ReachFrom(from, E) ==
    LET next == from \cup {e[2] : e \in {x \in E : x[1] \in from}}
    IN  IF next = from THEN from ELSE ReachFrom(next, E)

\* the nodes reachable from n in one or more steps
After(n, E) == ReachFrom({e[2] : e \in {x \in E : x[1] = n}}, E)

Acyclic(E) == \A e \in E : e[1] \notin After(e[1], E)

IterateEdge == <<validation_synthesizer_node, architect_supervisor_node>>

WellFormed(p) ==
    LET E == Edges(p)
    IN  /\ \A e \in E : /\ e[1] \in RegisteredNodes(p) \cup {START}
                         /\ e[2] \in RegisteredNodes(p) \cup {END}
        /\ \A e \in ConditionalEdges : e[3] \in RegisteredNodes(p)
        /\ \A n \in RegisteredNodes(p) : /\ n \in After(START, E)
                                          /\ END \in After(n, E)
        /\ IterateEdge \in E
        /\ ~Acyclic(E)
        /\ Acyclic(E \ {IterateEdge})

\* the providers whose graph is well formed
WellFormedProviders == {p \in Providers : WellFormed(p)}

\* C32: for each provider in {AWS, Azure, All} every edge endpoint and
\* every conditional-edge target of the graph is a registered node, every
\* registered node is reachable from START and can reach END, and the only
\* cycle goes through the conditional edge validation_synthesizer ->
\* architect_supervisor; the run schedules registered nodes only.
C32_GraphWellFormed ==
    /\ provider \in WellFormedProviders
    /\ active \subseteq RegisteredNodes(provider)

\* the graph of provider All has taken its cycle edge
C32_Witness ==
    /\ provider = "ALL"
    /\ active = {architect_supervisor_node}
    /\ hist.loop_at = 1
    /\ hist.decision = "iterate"

\* a round is under way: between the loop test and the next loop test
InRound == call.fn = "execute_tool_calls" /\ call.pc \in {"invoke", "sleep", "check", "tools"}

\* C39: the timeout of execute_tool_calls is observed only at the loop test
\* that starts a round: within a round the clock is not read, the oracle
\* invocation with its retries and backoff sleeps runs to its answer or to
\* exhaustion, and every requested tool call is run before the next loop
\* test; a stop for timeout is a normal return of this call and touches
\* nothing outside of it.
C39_TimeoutObservedAtRoundStart ==
    /\ [][InRound =>
             /\ call'.elapsed = call.elapsed
             /\ call'.timeout = call.timeout
             /\ call.pc = "invoke" =>
                   \/ call'.pc = "check" /\ call'.response # call.response
                   \/ call'.pc = "check" /\ call'.response = None
                   \/ call'.pc = "sleep" /\ call.attempt < call.retry_attempts
                   \/ call'.pc = "returned" /\ call'.exhausted
             /\ call.pc = "sleep" => call'.pc = "invoke" /\ call'.attempt = call.attempt + 1
             /\ call.pc = "check" =>
                   \/ call'.pc = "tools" /\ call.response.tool_calls # <<>>
                   \/ call'.pc = "exit" /\ call.response = None
                   \/ call'.pc = "exit" /\ call'.final_response = call.response
             /\ call.pc = "tools" =>
                   \/ call'.pc = "tools" /\ call'.next = call.next + 1
                   \/ /\ call'.pc = "while"
                      /\ call.next = Len(call.response.tool_calls)
                      /\ Len(call'.messages) = Len(call.messages) + 1]_vars
    /\ [][(InTool("while") /\ loop_guard(call) /\ call'.pc = "exit") =>
             timed_out(call.timeout, call'.elapsed)]_vars
    /\ [][(InTool("exit") /\ loop_guard(call) /\ call.final_response = None
             /\ call.only_tool_requests) =>
             /\ call'.pc = "returned"
             /\ ~call'.raised
             /\ call'.result # None]_vars
    /\ [][call.fn = "execute_tool_calls" => UNCHANGED wfvars]_vars

\* the loop stops for timeout after a round with a backoff sleep and a tool
\* call, both of which ran to the end
C39_Witness ==
    /\ InTool("exit")
    /\ loop_guard(call)
    /\ timed_out(call.timeout, call.elapsed)
    /\ call.sleeps # <<>>
    /\ call.invoked # <<>>
    /\ call.tool_iterations = 1

\* a node of the current superstep returned
NodeCompletes == writes' # writes /\ ~MergeStep

LatestVersion == call.saved[Len(call.saved)]

\* C33: the merged state is stored as the newest checkpoint version of the
\* run's thread after each superstep, that is after all the nodes that run
\* together have completed and their updates are merged; the completion of
\* a single node stores no version. Versions are only appended, and the
\* latest version equals the current merged state of the run.
C33_CheckpointPerSuperstep ==
    /\ [](/\ call.saved # <<>>
          /\ LatestVersion = state
          /\ call.thread_id = "arch-stream-0")
    /\ [][/\ Len(call'.saved) >= Len(call.saved)
          /\ SubSeq(call'.saved, 1, Len(call.saved)) = call.saved]_vars
    /\ [][MergeStep => call'.saved = Append(call.saved, state')]_vars
    /\ [][NodeCompletes => call'.saved = call.saved]_vars

\* the superstep of the two AWS architects has been merged: one version for
\* the input, one for the supervisor, one for both architects
C33_Witness ==
    /\ provider = "AWS"
    /\ active = {architect_synthesizer_node}
    /\ writes = NoWrites
    /\ Len(call.events) = 3
    /\ Len(call.saved) = 3
    /\ Cardinality(Keys(LatestVersion.architecture_components)) = 2

\* C33 as stated: each completed node has a version of its own, so that at
\* a barrier there are as many versions after the input's as nodes completed
C33_CheckpointPerNode ==
    (call.fn = "stream" /\ writes = NoWrites) => Len(call.saved) = Len(call.events) + 1

\* the nodes of the events from position i on
EventNodes(i) == {call.events[j].node : j \in i..Len(call.events)}

\* C34: the streaming run yields exactly one event per completed node
\* execution, in completion order, each holding the node's update; the
\* sequence is finite: its length is bounded by the passes of the run, its
\* last event is that of final_architecture_generator, and nothing is
\* yielded after it.
C34_OneEventPerCompletion ==
    /\ [][NodeCompletes =>
             \E n \in DOMAIN writes' \ DOMAIN writes :
                call'.events = Append(call.events, StreamEvent(n, writes'[n]))]_vars
    /\ [][~NodeCompletes => call'.events = call.events]_vars
    /\ [](/\ Len(call.events) >= Cardinality(DOMAIN writes)
          /\ EventNodes(Len(call.events) - Cardinality(DOMAIN writes) + 1) = DOMAIN writes
          /\ Len(call.events) <=
                (Cardinality(RegisteredNodes(provider)) - 1) * hist.sup_runs + hist.final_runs
          /\ hist.sup_runs <= Max2(1, Max2(state.min_iterations, state.max_iterations))
          /\ hist.final_runs = 1 =>
                /\ call.events[Len(call.events)].node = final_generator_node
                /\ \A j \in 1..(Len(call.events) - 1) :
                      call.events[j].node # final_generator_node
          /\ ended =>
                Len(call.events) =
                   (Cardinality(RegisteredNodes(provider)) - 1) * hist.sup_runs + 1)
    /\ [][ended => call' = call]_vars

\* END of a two-pass AWS run in which the network architect completed
\* before the compute architect
C34_Witness ==
    /\ provider = "AWS"
    /\ ended
    /\ hist.sup_runs = 2
    /\ Len(call.events) = 2 * (Cardinality(RegisteredNodes("AWS")) - 1) + 1
    /\ call.events[2].node = Node("architect", "aws", "network")
    /\ call.events[Len(call.events)].node = final_generator_node

\* what a reducer of the model returns for the values of the arguments
PureResult(reducer, left, right) ==
    CASE reducer = "merge_dicts" -> merge_dicts(left, right)
      [] reducer = "last_value" -> last_value(left, right)
      [] reducer = "validation_feedback_reducer" -> validation_feedback_reducer(left, right)

\* C40: merge_dicts, last_value and validation_feedback_reducer are pure:
\* no object that existed when the reducer was called, the arguments and
\* everything they hold included, is changed by the call, and the value
\* returned is a function of the values of the arguments, the same at every
\* call; a snapshot that shares these objects is not altered by a merge.
C40_ReducersArePure ==
    call.fn = "reducers_at" =>
        /\ Len(call.heap) >= Len(call.entry)
        /\ \A a \in 1..Len(call.entry) : call.heap[a] = call.entry[a]
        /\ load(call.heap, call.left) = load(call.entry, call.left)
        /\ load(call.heap, call.right) = load(call.entry, call.right)
        /\ call.applications >= 1 =>
              load(call.heap, call.result) =
                 PureResult(call.reducer, load(call.entry, call.left),
                            load(call.entry, call.right))

\* merge_dicts was called twice on two dicts that both hold a dict under "x"
C40_Witness ==
    /\ call.fn = "reducers_at"
    /\ call.applications = 2
    /\ call.reducer = "merge_dicts"
    /\ call.left # call.right
    /\ "x" \in DOMAIN call.heap[call.left.addr].items
    /\ "x" \in DOMAIN call.heap[call.right.addr].items
    /\ is_dict_at(call.heap, call.heap[call.left.addr].items["x"])
    /\ is_dict_at(call.heap, call.heap[call.right.addr].items["x"])
    /\ load(call.heap, call.result) # load(call.heap, call.left)
    /\ load(call.heap, call.result) # load(call.heap, call.right)
====
